---- MODULE Spec2Model ----
(***************************************************************************)
(* Verification model of the darchirp drivers:                             *)
(*   chirp/drivers/ft1d.py      channel addressing (slotloc), get_memory   *)
(*                              and set_memory, and the bank membership    *)
(*                              model (FT1BankModel)                       *)
(*   chirp/drivers/kx3.py,      checksummed frames, the command lock, the  *)
(*   chirp/drivers/elecraft.py  baud-rate negotiation (get_id), the memory *)
(*                              commands of the live radio and the         *)
(*                              frequency encoding                         *)
(*   chirp/wxui/bankedit.py     rows and memories of the bank editor       *)
(* Each subsystem has its own specification over the shared variables:     *)
(*   SpecSlot, SpecMem, SpecCk, SpecBank, SpecVfo, SpecLink (SpecLinkFair  *)
(*   with fairness), SpecThreads (SpecCommandFair: commands only, with     *)
(*   fairness), SpecLive, SpecFreq, SpecEdit.                              *)
(***************************************************************************)
EXTENDS Integers, Sequences, FiniteSets, TLC

VARIABLES
    slot_ref,       \* slotloc: the call's arguments [memref, extref]
    slot_res,       \* slotloc: the call's outcome (Pending before the call)
    slot_prev,      \* slotloc: the outcome of the call before this one
    ck_payload,     \* bytes a checksum is computed over
    ck_frame,       \* payload with the checksum byte appended
    ck_rx,          \* bytes of a record received from the radio
    ck_ok,          \* outcome of get_memory's checksum test on ck_rx
    bank_used,      \* _memobj.bank_used[b].in_use
    bank_members,   \* _memobj.bank_members[b].channel
    flag_nosubvfo,  \* positions of _memobj.flag whose nosubvfo bit is set
    vfo_info,       \* _memobj.vfo_info[0..3]: (master, backup) of VFO A and B
    bank_last,      \* the bank model's last call and how it ended
    LOCK,           \* elecraft.LOCK: the thread holding it, 0 when free
    LAST_BAUD,      \* elecraft.LAST_BAUD
    port_baudrate,  \* port.baudrate
    port_rx,        \* responses on their way to, or in, the port's input
    dev_baud,       \* the rate the attached radio talks at, 0 without radio
    dev_kind,       \* how the radio answers the identity command
    dev_dirty,      \* the radio holds garbage received at another rate
    th,             \* per thread: position and locals of command / get_id
    link_last,      \* the last write or read on the port
    NOCACHE,        \* kx3.NOCACHE: CHIRP_NOCACHE is in the environment
    memcache,       \* ElecraftLiveRadio._memcache: number -> Memory
    live,           \* the live radio's last call and how it ended
    ft_mem,         \* FT1Radio: flags and contents of the memory slots
    ft_last,        \* FT1Radio: the last get_memory or set_memory call
    freq_last,      \* the last frequency conversion and what it gave
    memory_bounds,  \* ChirpBankEdit._features.memory_bounds
    memory_cache,   \* ChirpBankEdit._memory_cache: number or name -> Memory
    grid_rows,      \* ChirpBankEdit._grid: label and visibility of the rows
    row_last        \* ChirpBankEdit: the last row2mem call

slotvars == <<slot_ref, slot_res, slot_prev, ft_mem, ft_last>>
ckvars == <<ck_payload, ck_frame, ck_rx, ck_ok>>
bankvars == <<bank_used, bank_members, flag_nosubvfo, vfo_info, bank_last>>
linkvars == <<LOCK, LAST_BAUD, port_baudrate, port_rx, dev_baud, dev_kind,
              dev_dirty, th, link_last>>
livevars == <<NOCACHE, memcache, live>>
convvars == <<freq_last, memory_bounds, memory_cache, grid_rows, row_last>>
vars == <<slot_ref, slot_res, slot_prev, ck_payload, ck_frame, ck_rx, ck_ok,
          bank_used, bank_members, flag_nosubvfo, vfo_info, bank_last,
          LOCK, LAST_BAUD, port_baudrate, port_rx, dev_baud, dev_kind,
          dev_dirty, th, link_last, NOCACHE, memcache, live, ft_mem, ft_last,
         freq_last, memory_bounds, memory_cache, grid_rows, row_last>>

None == "None"

(***************************************************************************)
(* Python helpers                                                          *)
(***************************************************************************)
Range(s) == {s[k] : k \in DOMAIN s}

RECURSIVE SumSeq(_)
SumSeq(s) ==
    IF s = <<>> THEN 0
    ELSE IF Len(s) = 1 THEN s[1]
    ELSE LET half == Len(s) \div 2
         IN  SumSeq(SubSeq(s, 1, half)) + SumSeq(SubSeq(s, half + 1, Len(s)))

\* list.index(v): 0-based position of the first occurrence, -1 for ValueError
ListIndex(s, v) ==
    IF \E k \in DOMAIN s : s[k] = v
    THEN (CHOOSE k \in DOMAIN s : s[k] = v /\ \A j \in 1..(k - 1) : s[j] # v) - 1
    ELSE -1

\* a[i] on a sequence view of length n: the 0-based position read, with
\* Python's wrap-around of negative indexes; -1 stands for IndexError
PyIndex(n, i) ==
    IF i >= 0 /\ i < n THEN i
    ELSE IF i < 0 /\ i >= -n THEN n + i
    ELSE -1

\* bitwise exclusive or of two 8-bit values
RECURSIVE Xor(_, _, _)
Xor(a, b, bits) ==
    IF bits = 0 THEN 0
    ELSE (((a % 2) + (b % 2)) % 2) + (2 * Xor(a \div 2, b \div 2, bits - 1))

\* bitwise and of two non-negative values over the given number of bits
RECURSIVE And(_, _, _)
And(a, b, bits) ==
    IF bits = 0 THEN 0
    ELSE ((a % 2) * (b % 2)) + (2 * And(a \div 2, b \div 2, bits - 1))

(***************************************************************************)
(* ft1d.py: the declared groups of special channels                        *)
(***************************************************************************)
MAX_MEM_SLOT == 900
MemNum == 900

SKIPNAMES == [k \in 1..99 |-> "Skip" \o ToString(900 + k)]
PMSNAMES ==
    [k \in 1..100 |-> (IF k % 2 = 1 THEN "L" ELSE "U") \o ToString((k + 1) \div 2)]
HOMENAMES == <<"AM", "SW", "50MHz", "FM", "Air", "144MHz", "174MHz",
               "Info1", "430MHz", "470MHz", "Info2">>
WXNAMES == [k \in 1..10 |-> "WX" \o ToString(k)]
VHFNAMES == [k \in 1..88 |-> "Marine" \o ToString(k)]
SWNAMES == [k \in 1..89 |-> "SWL" \o ToString(k)]
YAESUNAMES == WXNAMES \o VHFNAMES \o SWNAMES
ALLNAMES == SKIPNAMES \o PMSNAMES \o HOMENAMES \o YAESUNAMES

YAESUSPECIALS ==
    << <<"wx_chan", WXNAMES>>, <<"marine", VHFNAMES>>, <<"sw_chan", SWNAMES>> >>
\* FT1BankModel derives from chirp_common.SpecialBankModelInterface, so the
\* import at the top of the driver succeeds and the presets are appended
SPECIALS ==
    << <<"Skip", SKIPNAMES>>, <<"PMS", PMSNAMES>>, <<"Home", HOMENAMES>> >>
    \o YAESUSPECIALS

\* number of elements of each backing array (MEM_FORMAT, YAESU_PRESET_MEMORIES)
ArrayLen(array) ==
    CASE array = "memory" -> MemNum
      [] array = "Skip" -> 99
      [] array = "PMS" -> 100
      [] array = "Home" -> 11
      [] array = "wx_chan" -> 10
      [] array = "marine" -> 100
      [] array = "sw_chan" -> 100

\* companion flag array of a backing array, None where there is none
FlagArray(array) ==
    CASE array = "memory" -> "flag"
      [] array = "Skip" -> "flagskp"
      [] array = "PMS" -> "flagPMS"
      [] OTHER -> None

\* the object holding a backing array
Store(array) ==
    IF array \in {"wx_chan", "marine", "sw_chan"} THEN "_presets" ELSE "_memobj"

\* first loop of slotloc: walk the groups for a name; returns the group
\* position g (0 when the name is in none), the index and the number
RECURSIVE FindName(_, _, _)
FindName(sname, g, num) ==
    IF g > Len(SPECIALS) THEN [g |-> 0, ndx |-> 0, num |-> num]
    ELSE LET at == ListIndex(SPECIALS[g][2], sname)
         IN  IF at >= 0 THEN [g |-> g, ndx |-> at, num |-> num + at]
             ELSE FindName(sname, g + 1, num + Len(SPECIALS[g][2]))

\* FindNumber with the bound of a group taken one too far
RECURSIVE FindNumberOffByOne(_, _)
FindNumberOffByOne(ndx, g) ==
    IF g > Len(SPECIALS) THEN [g |-> 0, ndx |-> ndx]
    ELSE IF ndx <= Len(SPECIALS[g][2]) THEN [g |-> g, ndx |-> ndx]
    ELSE FindNumberOffByOne(ndx - Len(SPECIALS[g][2]), g + 1)

\* second loop of slotloc: walk the groups for a number above MAX_MEM_SLOT
RECURSIVE FindNumber(_, _)
FindNumber(ndx, g) ==
    IF g > Len(SPECIALS) THEN [g |-> 0, ndx |-> ndx]
    ELSE IF ndx < Len(SPECIALS[g][2]) THEN [g |-> g, ndx |-> ndx]
    ELSE FindNumber(ndx - Len(SPECIALS[g][2]), g + 1)

\* a memref is an int or a str: the model tags the value with its type
NumRef(n) == [str |-> FALSE, name |-> "", num |-> n]
NameRef(s) == [str |-> TRUE, name |-> s, num |-> 0]
IsStr(x) == x.str
Pending == [err |-> "pending"]

SlotError(what) == [err |-> what]
SlotOk(array, ndx, num, ename) ==
    LET at == PyIndex(ArrayLen(array), ndx)
    IN  IF at < 0 THEN SlotError("IndexError")
        ELSE [err |-> None, store |-> Store(array), array |-> array,
              at |-> at, flag |-> FlagArray(array),
              ndx |-> ndx, num |-> num, ename |-> ename]

\* FT1Radio.slotloc(memref, extref)
slotloc(memref, extref) ==
    LET mstr == IsStr(memref)
        extr == IF extref # None THEN extref \in Range(ALLNAMES) ELSE FALSE
    IN  IF mstr \/ extr
        THEN LET sname == IF mstr THEN memref.name ELSE extref
                 f == FindName(sname, 1, MAX_MEM_SLOT + 1)
             IN  IF f.g = 0 THEN SlotError("IndexError")
                 ELSE SlotOk(SPECIALS[f.g][1], f.ndx, f.num, memref)
        ELSE IF memref.num > MAX_MEM_SLOT
        THEN LET f == FindNumber(memref.num - (MAX_MEM_SLOT + 1), 1)
             IN  IF f.g = 0 THEN SlotError("IndexError")
                 ELSE SlotOk(SPECIALS[f.g][1], f.ndx, memref.num, NameRef(extref))
        ELSE SlotOk("memory", memref.num - 1, memref.num, NameRef(""))

TotalSpecials == Len(ALLNAMES)
\* names that are in no declared group
UnknownNames == {"Skip900", "L51", "Home", "WX11", ""}
\* how far below 1 and above the last special the numbers tried reach
NumMargin == 3
SlotNumbers == (0 - MemNum - NumMargin)..(MAX_MEM_SLOT + TotalSpecials + NumMargin)
SlotRefs ==
    {[memref |-> NumRef(n), extref |-> None] : n \in SlotNumbers}
    \cup {[memref |-> NameRef(s), extref |-> None] : s \in Range(ALLNAMES) \cup UnknownNames}
    \cup {[memref |-> NumRef(n), extref |-> e] :
            n \in {1, MAX_MEM_SLOT, MAX_MEM_SLOT + 1, MAX_MEM_SLOT + TotalSpecials},
            e \in {"Skip901", "Info2", "SWL89", "Home"}}

\* chirp_common.Memory as get_memory builds it and set_memory takes it
FtMemory(number, extd_number, empty, skip, contents) ==
    [number |-> number, extd_number |-> extd_number, empty |-> empty,
     skip |-> skip, contents |-> contents]
FtNoMemory == FtMemory(0, "", FALSE, "", "")
\* no call of get_memory or set_memory was made
FtNone ==
    [op |-> "none", ref |-> NumRef(0), mem |-> FtNoMemory, masked |-> FALSE,
     raised |-> None, ret |-> FtNoMemory, calls |-> 0]

\* values of the variables a specification leaves alone
FtIdle ==
    /\ ft_mem = <<>>
    /\ ft_last = FtNone
SlotIdle ==
    /\ slot_ref = [memref |-> NumRef(1), extref |-> None]
    /\ slot_res = Pending
    /\ slot_prev = Pending
    /\ FtIdle

\* one call of slotloc
SlotCall ==
    /\ slot_res = Pending
    /\ slot_res' = slotloc(slot_ref.memref, slot_ref.extref)
    /\ UNCHANGED <<slot_ref, slot_prev, ft_mem, ft_last, ckvars, bankvars,
                   linkvars, livevars, convvars>>

\* the caller resolves the number it was given back (get_memory by number
\* after get_memory by name)
SlotAgain ==
    /\ slot_res.err = None
    /\ slot_ref # [memref |-> NumRef(slot_res.num), extref |-> None]
    /\ slot_ref' = [memref |-> NumRef(slot_res.num), extref |-> None]
    /\ slot_res' = Pending
    /\ slot_prev' = slot_res
    /\ UNCHANGED <<ft_mem, ft_last, ckvars, bankvars, linkvars, livevars, convvars>>

(***************************************************************************)
(* kx3.py / elecraft.py: the frame checksum                                *)
(***************************************************************************)
\* the checksum without the decrement
compute_checksum_nodec(bytes) == Xor(SumSeq(bytes) % 256, 255, 8)

\* ((sum(bytes) - 1) & 0xFF) ^ 0xFF, kx3.py _cmd_get_memory
compute_checksum(bytes) == Xor((SumSeq(bytes) - 1) % 256, 255, 8)

\* get_memory: ckadd = ((int(sum(byt)) - 1) ^ 0xFF) & 0xFF; the low eight
\* bits of x ^ 0xFF are the low eight bits of x, each inverted
ckadd(byt) == Xor((SumSeq(byt) - 1) % 256, 255, 8)

\* get_memory goes on with the record only when ckadd is zero
checksum_ok(byt) == ckadd(byt) = 0

MaxPayload == 2
ByteSamples == {0, 1, 63, 64, 127, 128, 254, 255}
RECURSIVE SampleSeqs(_)
SampleSeqs(n) ==
    IF n = 0 THEN {<<>>}
    ELSE LET shorter == SampleSeqs(n - 1)
         IN  shorter \cup {Append(s, b) : s \in {t \in shorter : Len(t) = n - 1},
                                          b \in ByteSamples}
\* every first byte, then sampled bytes: the sums cover every residue
Payloads ==
    {<<>>} \cup {<<b>> \o s : b \in 0..255, s \in SampleSeqs(MaxPayload - 1)}

CkIdle ==
    /\ ck_payload = <<>>
    /\ ck_frame = <<>>
    /\ ck_rx = <<>>
    /\ ck_ok = "none"

\* the sender appends the checksum byte (_cmd_get_memory, do_download)
CkAppend ==
    /\ ck_frame = <<>>
    /\ ck_frame' = Append(ck_payload, compute_checksum(ck_payload))
    /\ UNCHANGED <<ck_payload, ck_rx, ck_ok, slotvars, bankvars, linkvars, livevars, convvars>>

\* the record arrives as sent, or with one byte changed on the way
CkReceive ==
    /\ ck_frame # <<>>
    /\ ck_rx = <<>>
    /\ \/ ck_rx' = ck_frame
       \/ \E k \in DOMAIN ck_frame, d \in {1, 128, 255} :
            ck_rx' = [ck_frame EXCEPT ![k] = (@ + d) % 256]
    /\ UNCHANGED <<ck_payload, ck_frame, ck_ok, slotvars, bankvars, linkvars, livevars, convvars>>

\* get_memory's test of the received bytes
CkVerify ==
    /\ ck_rx # <<>>
    /\ ck_ok = "none"
    /\ ck_ok' = IF checksum_ok(ck_rx) THEN "accepted" ELSE "rejected"
    /\ UNCHANGED <<ck_payload, ck_frame, ck_rx, slotvars, bankvars, linkvars, livevars, convvars>>

(***************************************************************************)
(* ft1d.py: FT1BankModel                                                   *)
(***************************************************************************)
\* the model's number of banks (bank_used[24], bank_members[24]) and the
\* width of a bank's member array (u16 channel[100])
NumBanks == 2
BankWidth == 3
Banks == 0..(NumBanks - 1)

UNUSED == 65535
IN_USE == 6
PresetBits == 28672

\* memory numbers the editor hands to the bank model: ordinary channels
\* (the last one included) and a bankable special
BankChannels == {1, MAX_MEM_SLOT, 1111}

\* sorted(set)
RECURSIVE Sorted(_)
Sorted(S) ==
    IF S = {} THEN <<>>
    ELSE LET m == CHOOSE x \in S : \A y \in S : x <= y
         IN  <<m>> \o Sorted(S \ {m})

\* the orders in which iterating a set can yield its elements
RECURSIVE Orders(_)
Orders(S) ==
    IF S = {} THEN {<<>>}
    ELSE UNION {{<<x>> \o o : o \in Orders(S \ {x})} : x \in S}

\* the decoding without the offset by one
channel_numbers_no_offset(used, members) ==
    IF used = UNUSED THEN {}
    ELSE {ch : ch \in Range(members) \ {UNUSED}}

\* FT1BankModel._channel_numbers_in_bank
channel_numbers(used, members) ==
    IF used = UNUSED THEN {}
    ELSE {ch + 1 : ch \in Range(members) \ {UNUSED}}

channel_numbers_in_bank(b) == channel_numbers(bank_used[b], bank_members[b])

\* the encoding in descending order
update_bank_descending(members, channels) ==
    IF Cardinality(channels) > Len(members)
    THEN [err |-> "InvalidValueError", channel |-> members]
    ELSE LET s == Sorted(channels)
             n == Len(s)
         IN  [err |-> None,
              channel |-> [k \in DOMAIN members |->
                             IF k <= n THEN s[n + 1 - k] - 1 ELSE UNUSED]]

\* the encoding without the capacity test: what does not fit is dropped
update_bank_no_limit(members, channels) ==
    LET s == Sorted(channels)
    IN  [err |-> None,
         channel |-> [k \in DOMAIN members |->
                        IF k <= Len(s) THEN s[k] - 1 ELSE UNUSED]]

\* the encoding that leaves out the channels of the firmware's presets
update_bank_drops_presets(members, channels) ==
    IF Cardinality(channels) > Len(members)
    THEN [err |-> "InvalidValueError", channel |-> members]
    ELSE LET s == Sorted({c \in channels : And(c, PresetBits, 16) = 0})
         IN  [err |-> None,
              channel |-> [k \in DOMAIN members |->
                             IF k <= Len(s) THEN s[k] - 1 ELSE UNUSED]]

\* FT1BankModel._update_bank_with_channel_numbers: the new member array,
\* or the error raised before anything is written
update_bank_with_channel_numbers(members, channels) ==
    IF Cardinality(channels) > Len(members)
    THEN [err |-> "InvalidValueError", channel |-> members]
    ELSE LET s == Sorted(channels)
         IN  [err |-> None,
              channel |-> [k \in DOMAIN members |->
                             IF k <= Len(s) THEN s[k] - 1 ELSE UNUSED]]

NoChoice == -1
LastCall(op, b, n, result) ==
    [op |-> op, bank |-> b, chan |-> n, result |-> result,
     warned |-> {}, chosen_bank |-> <<NoChoice, NoChoice>>,
     chosen_mr |-> <<NoChoice, NoChoice>>, calls |-> 0,
     orders |-> [x \in Banks |-> <<>>]]

\* remove_memory_from_mapping that ignores a channel that is not a member
remove_memory_lenient(b, n) ==
    LET channels == channel_numbers_in_bank(b) \ {n}
        upd == update_bank_with_channel_numbers(bank_members[b], channels)
    IN  /\ bank_members' = [bank_members EXCEPT ![b] = upd.channel]
        /\ bank_used' = IF channels = {} THEN [bank_used EXCEPT ![b] = UNUSED]
                        ELSE bank_used
        /\ bank_last' = LastCall("remove", b, n, "ok")

\* add_memory_to_mapping that leaves the in-use sentinel as it finds it
add_memory_keeps_sentinel(b, n) ==
    LET channels == channel_numbers_in_bank(b) \cup {n}
        upd == update_bank_with_channel_numbers(bank_members[b], channels)
    IN  IF upd.err # None
        THEN /\ bank_last' = LastCall("add", b, n, upd.err)
             /\ UNCHANGED <<bank_used, bank_members>>
        ELSE /\ bank_members' = [bank_members EXCEPT ![b] = upd.channel]
             /\ bank_last' = LastCall("add", b, n, "ok")
             /\ UNCHANGED bank_used

\* add_memory_to_mapping that moves the channel: it takes the channel out of
\* every other bank that holds it
add_memory_moves(b, n) ==
    LET channels == channel_numbers_in_bank(b) \cup {n}
        upd == update_bank_with_channel_numbers(bank_members[b], channels)
        without(c) ==
            update_bank_with_channel_numbers(
                bank_members[c], channel_numbers_in_bank(c) \ {n}).channel
    IN  IF upd.err # None
        THEN /\ bank_last' = LastCall("add", b, n, upd.err)
             /\ UNCHANGED <<bank_used, bank_members>>
        ELSE /\ bank_members' =
                    [c \in Banks |->
                        IF c = b THEN upd.channel
                        ELSE IF n \in channel_numbers_in_bank(c) THEN without(c)
                        ELSE bank_members[c]]
             /\ bank_used' = [bank_used EXCEPT ![b] = IN_USE]
             /\ bank_last' = LastCall("add", b, n, "ok")

\* FT1BankModel.add_memory_to_mapping(memory, bank)
add_memory_to_mapping(b, n) ==
    LET channels == channel_numbers_in_bank(b) \cup {n}
        upd == update_bank_with_channel_numbers(bank_members[b], channels)
    IN  IF upd.err # None
        THEN /\ bank_last' = LastCall("add", b, n, upd.err)
             /\ UNCHANGED <<bank_used, bank_members>>
        ELSE /\ bank_members' = [bank_members EXCEPT ![b] = upd.channel]
             /\ bank_used' = [bank_used EXCEPT ![b] = IN_USE]
             /\ bank_last' = LastCall("add", b, n, "ok")

\* remove_memory_from_mapping that leaves the in-use sentinel as it finds it
remove_memory_keeps_sentinel(b, n) ==
    LET before == channel_numbers_in_bank(b)
        channels == before \ {n}
        upd == update_bank_with_channel_numbers(bank_members[b], channels)
    IN  IF n \notin before
        THEN /\ bank_last' = LastCall("remove", b, n, "NotAMember")
             /\ UNCHANGED <<bank_used, bank_members>>
        ELSE /\ bank_members' = [bank_members EXCEPT ![b] = upd.channel]
             /\ bank_last' = LastCall("remove", b, n, "ok")
             /\ UNCHANGED bank_used

\* FT1BankModel.remove_memory_from_mapping(memory, bank)
remove_memory_from_mapping(b, n) ==
    LET before == channel_numbers_in_bank(b)
        channels == before \ {n}
        upd == update_bank_with_channel_numbers(bank_members[b], channels)
    IN  IF n \notin before
        THEN /\ bank_last' = LastCall("remove", b, n, "NotAMember")
             /\ UNCHANGED <<bank_used, bank_members>>
        ELSE /\ bank_members' = [bank_members EXCEPT ![b] = upd.channel]
             /\ bank_used' = IF channels = {} THEN [bank_used EXCEPT ![b] = UNUSED]
                             ELSE bank_used
             /\ bank_last' = LastCall("remove", b, n, "ok")

AddMemory ==
    \E b \in Banks, n \in BankChannels :
        /\ add_memory_to_mapping(b, n)
        /\ UNCHANGED <<flag_nosubvfo, vfo_info, slotvars, ckvars, linkvars, livevars, convvars>>

RemoveMemory ==
    \E b \in Banks, n \in BankChannels :
        /\ remove_memory_from_mapping(b, n)
        /\ UNCHANGED <<flag_nosubvfo, vfo_info, slotvars, ckvars, linkvars, livevars, convvars>>

\* a member array of the model's width holding the given entries
Image(entries) ==
    [k \in 1..BankWidth |-> IF k <= Len(entries) THEN entries[k] ELSE UNUSED]

\* bank images a downloaded or loaded memory image can hold: never used;
\* in use, entries out of order behind a free slot; stale entries under an
\* 'unused' sentinel; a preset entry of the firmware; in use without entries
BankImages ==
    { [used |-> UNUSED, channel |-> Image(<<>>)],
      [used |-> IN_USE, channel |-> Image(<<UNUSED, MAX_MEM_SLOT - 1, 0>>)],
      [used |-> UNUSED, channel |-> Image(<<0>>)],
      [used |-> IN_USE, channel |-> Image(<<4101>>)],
      [used |-> IN_USE, channel |-> Image(<<>>)] }

VfoBlock(ck, b, mr, en) ==
    [checksum |-> ck, bank_index |-> b, mr_index |-> mr, bank_enable |-> en]
VfoDisabled(ck) == VfoBlock(ck, UNUSED, UNUSED, UNUSED)

\* update_vfo, inner loop: the channels of one bank in the order the set
\* yields them; chosen_bank/chosen_mr positions 1 and 2 are VFO A and B
RECURSIVE ScanBank(_, _, _)
ScanBank(order, b, st) ==
    IF order = <<>> THEN st
    ELSE LET channel == Head(order)
             st0 == [st EXCEPT !.chosen_bank[1] = b, !.chosen_mr[1] = channel]
             at == PyIndex(MemNum, channel)
         IN  IF And(channel, PresetBits, 16) # 0 THEN st0
             ELSE IF at < 0 THEN [st0 EXCEPT !.err = "IndexError"]
             ELSE IF at \notin flag_nosubvfo
             THEN [st0 EXCEPT !.chosen_bank[2] = b, !.chosen_mr[2] = channel]
             ELSE ScanBank(Tail(order), b, st0)

\* update_vfo, outer loop: leaves once chosen_bank[1] is truthy (None and
\* bank 0 are not)
RECURSIVE ScanBanks(_, _, _)
ScanBanks(orders, b, st) ==
    IF b \notin Banks THEN st
    ELSE LET st1 == ScanBank(orders[b], b, st)
         IN  IF st1.err # None THEN st1
             ELSE IF st1.chosen_bank[2] \notin {NoChoice, 0} THEN st1
             ELSE ScanBanks(orders, b + 1, st1)

ScanStart ==
    [chosen_bank |-> <<NoChoice, NoChoice>>, chosen_mr |-> <<NoChoice, NoChoice>>,
     err |-> None]

SameChecksum(vfo, i) == vfo[2 * i].checksum = vfo[2 * i + 1].checksum

\* update_vfo that enables banks on every call in which a bank was chosen
vfo_master_always(vfo, i, cb, cm) ==
    LET m == vfo[2 * i]
    IN  IF ~SameChecksum(vfo, i) THEN m
        ELSE IF cb = NoChoice /\ m.bank_index # UNUSED
        THEN [m EXCEPT !.bank_index = UNUSED, !.mr_index = UNUSED,
                       !.bank_enable = UNUSED]
        ELSE IF cb # NoChoice
        THEN [m EXCEPT !.bank_index = cb, !.mr_index = cm, !.bank_enable = 0]
        ELSE m

\* update_vfo, second loop: the master block of VFO i after the call
vfo_master(vfo, i, cb, cm) ==
    LET m == vfo[2 * i]
    IN  IF ~SameChecksum(vfo, i) THEN m
        ELSE IF cb = NoChoice /\ m.bank_index # UNUSED
        THEN [m EXCEPT !.bank_index = UNUSED, !.mr_index = UNUSED,
                       !.bank_enable = UNUSED]
        ELSE IF cb # NoChoice /\ m.bank_index = UNUSED
        THEN [m EXCEPT !.bank_index = cb, !.mr_index = cm, !.bank_enable = 0]
        ELSE m

\* an update_vfo that mirrors the bank index only
vfo_backup_index_only(vfo, i, master) ==
    LET bak == vfo[2 * i + 1]
    IN  IF master.checksum # bak.checksum THEN bak
        ELSE [bak EXCEPT !.bank_index = master.bank_index]

\* update_vfo, second loop: the backup block of VFO i after the call
vfo_backup(vfo, i, master) ==
    LET bak == vfo[2 * i + 1]
    IN  IF master.checksum # bak.checksum THEN bak
        ELSE [bak EXCEPT !.bank_index = master.bank_index,
                         !.mr_index = master.mr_index,
                         !.bank_enable = master.bank_enable]

MaxVfoCalls == 2

\* the orders in which one call of update_vfo can find the banks' sets:
\* any order, but the same one as the call before when that was update_vfo
\* too (the sets are then built again from the same arrays)
ScanOrders ==
    IF bank_last.op = "update_vfo"
    THEN {bank_last.orders}
    ELSE {o \in [Banks -> UNION {Orders(channel_numbers_in_bank(b)) : b \in Banks}] :
            \A b \in Banks : o[b] \in Orders(channel_numbers_in_bank(b))}

\* FT1BankModel.update_vfo
UpdateVfo ==
    /\ bank_last.calls < MaxVfoCalls
    /\ \E orders \in ScanOrders :
        /\ LET st == ScanBanks(orders, 0, ScanStart)
               m == [i \in {0, 1} |->
                       vfo_master(vfo_info, i, st.chosen_bank[i + 1], st.chosen_mr[i + 1])]
           IN  IF st.err # None
               THEN /\ vfo_info' = vfo_info
                    /\ bank_last' = [LastCall("update_vfo", 0, 0, st.err)
                                       EXCEPT !.calls = bank_last.calls + 1,
                                              !.orders = orders]
               ELSE /\ vfo_info' = [k \in 0..3 |->
                                      IF k % 2 = 0 THEN m[k \div 2]
                                      ELSE vfo_backup(vfo_info, k \div 2, m[k \div 2])]
                    /\ bank_last' =
                         [LastCall("update_vfo", 0, 0, "ok") EXCEPT
                            !.warned = {i \in {0, 1} : ~SameChecksum(vfo_info, i)},
                            !.chosen_bank = st.chosen_bank,
                            !.chosen_mr = st.chosen_mr,
                            !.calls = bank_last.calls + 1,
                            !.orders = orders]
    /\ UNCHANGED <<bank_used, bank_members, flag_nosubvfo, slotvars, ckvars, linkvars, livevars, convvars>>

\* bank images for update_vfo: the ones above, with the two-member bank
\* holding the first two channels, and a bank holding only the last channel
VfoBankImages ==
    {im \in BankImages : Cardinality(channel_numbers(im.used, im.channel)) < 2}
        \cup { [used |-> IN_USE, channel |-> Image(<<1, 0>>)],
               [used |-> IN_USE, channel |-> Image(<<MAX_MEM_SLOT - 1>>)] }

\* (master, backup) pairs of a memory image: banks disabled or enabled in
\* the master; the backup mirrors it or not, its checksum equal or not
VfoPairs ==
    LET masters == {VfoDisabled(17), VfoBlock(17, 1, 2, 0)}
        other(m) == IF m.bank_index = UNUSED THEN VfoBlock(17, 1, 2, 0)
                    ELSE VfoDisabled(17)
    IN  UNION {{<<m, [b EXCEPT !.checksum = ck]>> :
                    b \in {m, other(m)}, ck \in {17, 18}} : m \in masters}

\* positions of the flag array that update_vfo reads for channels 1 and 2
FlagPositions == {1, 2}

VfoNext == UpdateVfo

BankIdle ==
    /\ bank_used = [b \in Banks |-> UNUSED]
    /\ bank_members = [b \in Banks |-> Image(<<>>)]
    /\ flag_nosubvfo = {}
    /\ vfo_info = [i \in 0..3 |-> VfoDisabled(0)]
    /\ bank_last = LastCall("none", 0, 0, "none")

BankNext == AddMemory \/ RemoveMemory


(***************************************************************************)
(* The serial link: elecraft.py / kx3.py  command, _command and get_id     *)
(***************************************************************************)
\* get_id: bauds
BAUDS == <<4800, 9600, 19200, 38400, 57600, 115200>>
\* the module's LAST_BAUD when it is loaded
FIRST_LAST_BAUD == 38400

\* list.remove(v): the list without the first v
ListRemove(s, v) ==
    LET i == ListIndex(s, v)
    IN  IF i < 0 THEN s ELSE SubSeq(s, 1, i) \o SubSeq(s, i + 2, Len(s))
\* reversed(list)
Reversed(s) == [i \in 1..Len(s) |-> s[Len(s) + 1 - i]]

probe_order_forward(last) == Append(ListRemove(BAUDS, last), last)
\* get_id: the rates in the order the loop probes them
probe_order(last) == Reversed(Append(ListRemove(BAUDS, last), last))

MaxReads == 2
MaxQueue == 2
MaxPlainCalls == 1

Threads == {1, 2}
\* the thread that identifies the radio; every thread sends other commands
IdThreads == {1}

\* a thread outside command and get_id
ThreadIdle ==
    [pc |-> "idle", stage |-> "none", result |-> <<>>, reads |-> 0,
     raised |-> FALSE, bauds |-> <<>>, k |-> 0, prior |-> 0, probed |-> <<>>,
     outcome |-> "none", calls |-> 0, sent |-> 0, prompt |-> TRUE,
     ret |-> <<>>, late |-> FALSE, writes |-> 0, issued |-> <<>>,
     resp |-> <<>>, model |-> <<>>]
\* a thread that is not running
ThreadAbsent == [ThreadIdle EXCEPT !.pc = "absent"]

\* the locals of a call of _command that has returned are gone
forget(r) ==
    [r EXCEPT !.result = <<>>, !.reads = 0, !.raised = FALSE, !.ret = <<>>,
              !.late = FALSE, !.writes = 0]

\* the frame a call of command sends: IDEN_CMD, XTRA_CMD or another command
FrameOf(stage) ==
    CASE stage \in {"iden", "retry"} -> "ID"
      [] stage = "xtra" -> "OM"
      [] OTHER -> "MR"

\* responses are tokens: "model" is an identity with a space and a model
\* name, "code" a bare identity code of RADIO_IDS, "err" the error token "?",
\* "xt" and "xt4", "xtx", "xt1", "xt0" the answers to XTRA_CMD of a KX3, a
\* K4, a K3, a KX2 and of a radio none of the rules of get_id knows,
\* "data" any other answer, all of them ending
\* with the delimiter; "mhead" and "mtail" are the two parts of a "model"
\* that a read cut in two; "bin" is what a device that is no Elecraft radio
\* sends, or what the port reads from a radio talking at another rate:
\* bytes that cp1252 does not decode
TokenText(tok) ==
    CASE tok = "model" -> <<"I", "D", " ", "K", "3", ";">>
      [] tok = "mhead" -> <<"I", "D", " ">>
      [] tok = "mtail" -> <<"K", "3", ";">>
      [] tok = "code" -> <<"I", "D", "0", "1", "7", ";">>
      [] tok = "err" -> <<"?", ";">>
      [] tok = "xt" -> <<"O", "M", " ", "0", "2", ";">>
      [] tok = "xt4" -> <<"O", "M", " ", "4", "-", "-", "-", ";">>
      [] tok = "xtx" -> <<"O", "M", " ", "-", "-", ";">>
      [] tok = "xt1" -> <<"O", "M", " ", "0", "1", ";">>
      [] tok = "xt0" -> <<"O", "M", " ", "0", "3", ";">>
      [] tok = "data" -> <<"M", "R", "1", ";">>
      [] OTHER -> <<>>

\* the characters of the responses accumulated in result
RECURSIVE Text(_)
Text(toks) ==
    IF toks = <<>> THEN <<>> ELSE TokenText(Head(toks)) \o Text(Tail(toks))

\* LAST_DELIMITER[0]
DELIMITER == ";"

\* str.strip(): without the blanks at both ends
RECURSIVE lstrip(_)
lstrip(s) == IF s # <<>> /\ Head(s) = " " THEN lstrip(Tail(s)) ELSE s
RECURSIVE rstrip(_)
rstrip(s) ==
    IF s # <<>> /\ s[Len(s)] = " " THEN rstrip(SubSeq(s, 1, Len(s) - 1)) ELSE s
strip(s) == lstrip(rstrip(s))

command_return_unstripped(result) ==
    IF result # <<>> /\ result[Len(result)] = DELIMITER
    THEN SubSeq(result, 1, Len(result) - 1)
    ELSE result
command_return_whole(result) == strip(result)
\* _command: the value returned for the characters accumulated in result
command_return(result) ==
    strip(IF result # <<>> /\ result[Len(result)] = DELIMITER
          THEN SubSeq(result, 1, Len(result) - 1)
          ELSE result)

\* the answers to XTRA_CMD of the radios
XtraAnswers == {"xt", "xt4", "xtx", "xt1", "xt0"}

Answer(frame) ==
    CASE frame = "ID" -> dev_kind
      [] frame = "OM" -> "xt"
      [] OTHER -> "data"

\* what the attached device sends for a frame: an Elecraft radio its answer,
\* a device that is no Elecraft radio an error token or binary
Answers(frame) ==
    IF dev_kind = "other" THEN {"err", "bin"}
    ELSE IF frame = "OM" THEN XtraAnswers
    ELSE {Answer(frame)}

\* a response joins those under way unless the input overruns; garbage
\* behind garbage is garbage
Queue(q, tok) ==
    IF q # <<>> /\ q[Len(q)] = "bin" /\ tok = "bin" THEN q
    ELSE IF Len(q) >= MaxQueue THEN q
    ELSE Append(q, tok)

\* what a frame written at a rate of the port does at the radio: at another
\* rate it is garbage, answered by the error token or kept; at the radio's
\* rate garbage kept from before makes the radio answer the error token; the
\* bare delimiter get_id sends is not answered by a radio that holds no
\* garbage
device_receive(baud, frame) ==
    IF dev_baud = 0 THEN {[dirty |-> dev_dirty, rx |-> port_rx]}
    ELSE IF baud # dev_baud
    THEN {[dirty |-> TRUE, rx |-> port_rx],
          [dirty |-> FALSE, rx |-> Queue(port_rx, "err")]}
    ELSE IF dev_dirty THEN {[dirty |-> FALSE, rx |-> Queue(port_rx, "err")]}
    ELSE IF frame = "poke" THEN {[dirty |-> FALSE, rx |-> port_rx]}
    ELSE {[dirty |-> FALSE, rx |-> Queue(port_rx, a)] : a \in Answers(frame)}

\* a loop that left off as soon as the delimiter is anywhere in result
ContainsDelimiter(result) == DELIMITER \in Range(Text(result))

\* result.endswith(LAST_DELIMITER[0])
EndsWithDelimiter(result) ==
    Text(result) # <<>> /\ Text(result)[Len(Text(result))] = DELIMITER

\* a call that writes its frame again when a turn brought no whole response
turn_rewrites(done) == IF done THEN "cmd_exit" ELSE "cmd_write"
\* _command: where the call goes after a turn of the loop: back to the loop
\* test, or out of the loop
after_turn(done) == IF done THEN "cmd_exit" ELSE "cmd_read"

\* what the port makes of the bytes a device sends at another rate
Garble(data) ==
    IF port_baudrate # dev_baud THEN [i \in DOMAIN data |-> "bin"] ELSE data

\* port.read: what has arrived by the time the read returns: some of the
\* responses under way, and possibly the first part of the next one
port_read ==
    {[data |-> Garble(SubSeq(port_rx, 1, n)),
      rest |-> SubSeq(port_rx, n + 1, Len(port_rx)),
      all |-> n = Len(port_rx)] : n \in 0..Len(port_rx)}
    \cup
    {[data |-> Garble(Append(SubSeq(port_rx, 1, n), "mhead")),
      rest |-> <<"mtail">> \o SubSeq(port_rx, n + 2, Len(port_rx)),
      all |-> FALSE] : n \in {m \in 0..(Len(port_rx) - 1) : port_rx[m + 1] = "model"}}

\* the threads between the frame write and the end of the response read
InCommand == {u \in Threads : th[u].pc = "cmd_read"}
\* a write or read on the port by thread t
Access(t, kind) ==
    [thread |-> t, kind |-> kind, during |-> InCommand \ {t}, holder |-> LOCK]

LinkIdle ==
    /\ LOCK = 0
    /\ LAST_BAUD = FIRST_LAST_BAUD
    /\ port_baudrate = FIRST_LAST_BAUD
    /\ port_rx = <<>>
    /\ dev_baud = 0
    /\ dev_kind = "model"
    /\ dev_dirty = FALSE
    /\ th = [t \in Threads |-> ThreadIdle]
    /\ link_last = [thread |-> 0, kind |-> "none", during |-> {}, holder |-> 0]

others == <<slotvars, ckvars, bankvars, livevars, convvars>>

\* command: with LOCK
CmdAcquire(t) ==
    /\ th[t].pc = "cmd_lock"
    /\ LOCK = 0
    /\ LOCK' = t
    /\ th' = [th EXCEPT ![t].pc = "cmd_write"]
    /\ UNCHANGED <<LAST_BAUD, port_baudrate, port_rx, dev_baud, dev_kind,
                   dev_dirty, link_last, others>>

\* _command: port.write(cmd) and result = ""
CmdWrite(t) ==
    /\ th[t].pc = "cmd_write"
    /\ \E d \in device_receive(port_baudrate, FrameOf(th[t].stage)) :
          /\ dev_dirty' = d.dirty
          /\ port_rx' = d.rx
    /\ th' = [th EXCEPT ![t].pc = "cmd_read", ![t].result = <<>>,
                        ![t].reads = 0, ![t].raised = FALSE,
                        ![t].writes = @ + 1,
                        ![t].issued = IF th[t].stage = "plain" THEN @
                                      ELSE Append(@, FrameOf(th[t].stage))]
    /\ link_last' = Access(t, "write")
    /\ UNCHANGED <<LOCK, LAST_BAUD, port_baudrate, dev_baud, dev_kind, others>>

\* _command: one turn of the loop, result += port.read(..).decode('cp1252')
\* and the test of the deadline; the read returns what has arrived by then,
\* and the deadline has passed after MaxReads reads at the latest; after
\* the last turn the value to return
CmdRead(t) ==
    /\ th[t].pc = "cmd_read"
    /\ \E rd \in port_read, late \in BOOLEAN :
          /\ th[t].reads + 1 >= MaxReads => late
          /\ LET data == rd.data
                 raised == "bin" \in Range(data)
                 result == IF raised THEN th[t].result ELSE th[t].result \o data
                 done == raised \/ late \/ EndsWithDelimiter(result)
             IN  /\ port_rx' = rd.rest
                 /\ th' = [th EXCEPT ![t].result = result,
                                     ![t].reads = @ + 1,
                                     ![t].raised = raised,
                                     ![t].late = late /\ ~raised,
                                     ![t].ret =
                                         IF done /\ ~raised
                                         THEN command_return(Text(result))
                                         ELSE <<>>,
                                     ![t].prompt =
                                         @ /\ (rd.all \/ th[t].stage = "plain"),
                                     ![t].pc = after_turn(done)]
    /\ link_last' = Access(t, "read")
    /\ UNCHANGED <<LOCK, LAST_BAUD, port_baudrate, dev_baud, dev_kind,
                   dev_dirty, others>>

\* a command that leaves the lock taken when _command raised
CmdReleaseOnReturn(t) ==
    /\ th[t].pc = "cmd_exit"
    /\ LOCK' = IF th[t].raised THEN LOCK ELSE 0
    /\ th' = [th EXCEPT ![t].pc = "cmd_done"]
    /\ UNCHANGED <<LAST_BAUD, port_baudrate, port_rx, dev_baud, dev_kind,
                   dev_dirty, link_last, others>>

\* command: leaving the with block, by return or by UnicodeDecodeError
CmdRelease(t) ==
    /\ th[t].pc = "cmd_exit"
    /\ LOCK' = 0
    /\ th' = [th EXCEPT ![t].pc = "cmd_done"]
    /\ UNCHANGED <<LAST_BAUD, port_baudrate, port_rx, dev_baud, dev_kind,
                   dev_dirty, link_last, others>>

\* a caller other than get_id sends a command
PlainStart(t) ==
    /\ th[t].pc = "idle"
    /\ th[t].sent < MaxPlainCalls
    /\ th' = [th EXCEPT ![t].pc = "cmd_lock", ![t].stage = "plain",
                        ![t].sent = @ + 1, ![t].outcome = "running"]
    /\ UNCHANGED <<LOCK, LAST_BAUD, port_baudrate, port_rx, dev_baud,
                   dev_kind, dev_dirty, link_last, others>>

PlainDone(t) ==
    /\ th[t].pc = "cmd_done"
    /\ th[t].stage = "plain"
    /\ th' = [th EXCEPT ![t] =
                 [forget(th[t]) EXCEPT !.pc = "idle", !.stage = "none",
                                       !.outcome = IF th[t].raised THEN "raised"
                                                   ELSE "returned"]]
    /\ UNCHANGED <<LOCK, LAST_BAUD, port_baudrate, port_rx, dev_baud,
                   dev_kind, dev_dirty, link_last, others>>

\* get_id, called when the radio is opened: bauds.remove(LAST_BAUD);
\* bauds.append(LAST_BAUD); reversed(bauds)
GetIdStart(t) ==
    /\ t \in IdThreads
    /\ th[t].pc = "idle"
    /\ th[t].calls = 0
    /\ th' = [th EXCEPT ![t].pc = "id_poke", ![t].stage = "none",
                        ![t].bauds = probe_order(LAST_BAUD), ![t].k = 1,
                        ![t].prior = LAST_BAUD, ![t].probed = <<>>,
                        ![t].calls = @ + 1, ![t].outcome = "running",
                        ![t].prompt = port_rx = <<>>]
    /\ UNCHANGED <<LOCK, LAST_BAUD, port_baudrate, port_rx, dev_baud,
                   dev_kind, dev_dirty, link_last, others>>

\* get_id: port.baudrate = i; port.write(LAST_DELIMITER[0])
GetIdPoke(t) ==
    /\ th[t].pc = "id_poke"
    /\ port_baudrate' = th[t].bauds[th[t].k]
    /\ \E d \in device_receive(th[t].bauds[th[t].k], "poke") :
          /\ dev_dirty' = d.dirty
          /\ port_rx' = d.rx
    /\ th' = [th EXCEPT ![t].pc = "id_flush",
                        ![t].probed = Append(@, th[t].bauds[th[t].k])]
    /\ link_last' = Access(t, "write")
    /\ UNCHANGED <<LOCK, LAST_BAUD, dev_baud, dev_kind, others>>

\* get_id: port.read(25), then resp = command(port, IDEN_CMD)
GetIdFlush(t) ==
    /\ th[t].pc = "id_flush"
    /\ \E rd \in port_read :
          /\ port_rx' = rd.rest
          /\ th' = [th EXCEPT ![t].pc = "cmd_lock", ![t].stage = "iden",
                              ![t].prompt = @ /\ rd.all]
    /\ link_last' = Access(t, "read")
    /\ UNCHANGED <<LOCK, LAST_BAUD, port_baudrate, dev_baud, dev_kind,
                   dev_dirty, others>>

RADIO_IDS ==
    (<<"I", "D", "0", "1", "7">> :> <<"E", "l", "e", "c", "r", "a", "f", "t">>)
    @@ (<<"I", "D", "0", "1", "7", "X">> :> <<"K", "3">>)
    @@ (<<"I", "D", "0", "1", "7", "1">> :> <<"K", "X", "2">>)
    @@ (<<"I", "D", "0", "1", "7", "2">> :> <<"K", "X", "3">>)
    @@ (<<"I", "D", "0", "1", "7", "4">> :> <<"K", "4">>)

\* get_id: the loop moves to the next rate, or ends with
\* RadioError("No response from radio")
next_candidate(r) ==
    IF r.k < Len(r.bauds)
    THEN [forget(r) EXCEPT !.pc = "id_poke", !.stage = "none", !.k = @ + 1,
                           !.issued = <<>>, !.resp = <<>>]
    ELSE [forget(r) EXCEPT !.pc = "idle", !.stage = "none",
                           !.outcome = "NoResponse", !.issued = <<>>,
                           !.resp = <<>>]
\* get_id that goes on with the next rate after a model was identified
keeps_probing(r) == next_candidate(r)
\* resp.split(" ")[1] for a resp that holds a blank
split1(resp) ==
    LET a == CHOOSE i \in 1..Len(resp) :
                 resp[i] = " " /\ \A j \in 1..(i - 1) : resp[j] # " "
        rest == SubSeq(resp, a + 1, Len(resp))
        ends == {i \in 1..Len(rest) : rest[i] = " "}
    IN  IF ends = {} THEN rest
        ELSE SubSeq(rest, 1, (CHOOSE i \in ends : \A j \in ends : i <= j) - 1)
\* s[-n:]
Last(s, n) == IF Len(s) <= n THEN s ELSE SubSeq(s, Len(s) - n + 1, Len(s))
\* get_id with the rules for the K4 and the K3 in the other order
resolve_k3_first(resp, xt) ==
    IF Last(xt, 2) = <<"-", "-">> THEN <<"I", "D", "0", "1", "7", "X">>
    ELSE IF Last(xt, 4) = <<"4", "-", "-", "-">> THEN <<"I", "D", "0", "1", "7", "4">>
    ELSE IF Last(xt, 2) = <<"0", "1">> THEN <<"I", "D", "0", "1", "7", "1">>
    ELSE IF Last(xt, 2) = <<"0", "2">> THEN <<"I", "D", "0", "1", "7", "2">>
    ELSE resp
\* get_id: the key of RADIO_IDS chosen from the reply to XTRA_CMD
resolve(resp, xt) ==
    IF Last(xt, 4) = <<"4", "-", "-", "-">> THEN <<"I", "D", "0", "1", "7", "4">>
    ELSE IF Last(xt, 2) = <<"-", "-">> THEN <<"I", "D", "0", "1", "7", "X">>
    ELSE IF Last(xt, 2) = <<"0", "1">> THEN <<"I", "D", "0", "1", "7", "1">>
    ELSE IF Last(xt, 2) = <<"0", "2">> THEN <<"I", "D", "0", "1", "7", "2">>
    ELSE resp
\* get_id returns a model: resp.split(" ")[1] of an identity with a model
\* name, RADIO_IDS[resp] after the extended-info command
identified(r) ==
    [forget(r) EXCEPT !.pc = "idle", !.stage = "none", !.outcome = "model",
                      !.issued = <<>>, !.resp = <<>>,
                      !.model = IF r.stage = "xtra"
                                THEN RADIO_IDS[resolve(r.resp, r.ret)]
                                ELSE split1(r.ret)]
\* an exception leaves get_id
failed(r, exc) ==
    [forget(r) EXCEPT !.pc = "idle", !.stage = "none", !.outcome = exc,
                      !.issued = <<>>, !.resp = <<>>]
\* get_id that takes the reissued command for a first one
reissues_again(r, stage) ==
    [forget(r) EXCEPT !.pc = "cmd_lock", !.resp = r.ret,
                      !.stage = IF stage = "retry" THEN "iden" ELSE stage]
\* get_id calls command again; resp is what the last command returned
again(r, stage) ==
    [forget(r) EXCEPT !.pc = "cmd_lock", !.stage = stage, !.resp = r.ret]

\* " " in resp, "?" in resp, resp in RADIO_IDS
HasSpace(resp) == " " \in Range(resp)
HasError(resp) == "?" \in Range(resp)
InRadioIds(resp) == resp \in DOMAIN RADIO_IDS

\* get_id: after resp = command(port, IDEN_CMD) in the try block
GetIdIden(t) ==
    /\ th[t].pc = "cmd_done"
    /\ th[t].stage = "iden"
    /\ LET r == th[t]
           resp == r.ret
       IN  /\ th' = [th EXCEPT ![t] =
                        IF r.raised THEN next_candidate(r)
                        ELSE IF HasSpace(resp) THEN identified(r)
                        ELSE IF HasError(resp) THEN again(r, "retry")
                        ELSE IF InRadioIds(resp) THEN again(r, "xtra")
                        ELSE next_candidate(r)]
           /\ LAST_BAUD' = IF ~r.raised /\ HasSpace(resp) THEN r.bauds[r.k]
                           ELSE LAST_BAUD
    /\ UNCHANGED <<LOCK, port_baudrate, port_rx, dev_baud, dev_kind,
                   dev_dirty, link_last, others>>

\* get_id: after the command reissued on an error token
GetIdRetry(t) ==
    /\ th[t].pc = "cmd_done"
    /\ th[t].stage = "retry"
    /\ LET r == th[t]
           resp == r.ret
       IN  /\ th' = [th EXCEPT ![t] =
                        IF r.raised THEN failed(r, "UnicodeDecodeError")
                        ELSE IF HasSpace(resp) THEN identified(r)
                        ELSE IF InRadioIds(resp) THEN again(r, "xtra")
                        ELSE next_candidate(r)]
           /\ LAST_BAUD' = IF r.raised THEN LAST_BAUD ELSE r.bauds[r.k]
    /\ UNCHANGED <<LOCK, port_baudrate, port_rx, dev_baud, dev_kind,
                   dev_dirty, link_last, others>>

\* get_id: after xt = command(port, XTRA_CMD)
GetIdXtra(t) ==
    /\ th[t].pc = "cmd_done"
    /\ th[t].stage = "xtra"
    /\ th' = [th EXCEPT ![t] =
                 IF th[t].raised THEN failed(th[t], "UnicodeDecodeError")
                 ELSE identified(th[t])]
    /\ UNCHANGED <<LOCK, LAST_BAUD, port_baudrate, port_rx, dev_baud,
                   dev_kind, dev_dirty, link_last, others>>

LinkNext ==
    \E t \in Threads :
        \/ CmdAcquire(t) \/ CmdWrite(t) \/ CmdRead(t) \/ CmdRelease(t)
        \/ PlainStart(t) \/ PlainDone(t)
        \/ GetIdStart(t) \/ GetIdPoke(t) \/ GetIdFlush(t)
        \/ GetIdIden(t) \/ GetIdRetry(t) \/ GetIdXtra(t)

\* the steps of a thread that only calls command()
CommandStep(t) ==
    \/ CmdAcquire(t) \/ CmdWrite(t) \/ CmdRead(t) \/ CmdRelease(t)
    \/ PlainStart(t) \/ PlainDone(t)
CommandNext == \E t \in Threads : CommandStep(t)

(***************************************************************************)
(* kx3.py: ElecraftLiveRadio, the memory commands                          *)
(***************************************************************************)
READ_CMD == <<"E", "R">>
WRIT_CMD == <<"E", "W">>
MEM_START == 3072
MEM_LEN == 64
\* ElecraftLiveRadio._upper
upper == 99
BAND_NAMES ==
    <<"160", "80", "60", "40", "30", "20", "17", "15", "12", "10", "6",
      "Rs1", "Rs2", "Rs3", "Rs4", "Rs5",
      "XV1", "XV2", "XV3", "XV4", "XV5", "XV6", "XV7", "XV8", "XV9">>
\* kx3.SPECIALS
KX_SPECIALS ==
    [k \in 1..100 |->
        BAND_NAMES[((k - 1) \div 4) + 1] \o " M" \o ToString(((k - 1) % 4) + 1)]
\* calcsize(FMT)
FMT_SIZE == 68

HexDigits ==
    <<"0", "1", "2", "3", "4", "5", "6", "7", "8", "9",
      "a", "b", "c", "d", "e", "f">>
UpperHexDigits ==
    <<"0", "1", "2", "3", "4", "5", "6", "7", "8", "9",
      "A", "B", "C", "D", "E", "F">>
\* the digits of format(n, "x") for n >= 0
RECURSIVE HexOf(_)
HexOf(n) ==
    IF n < 16 THEN <<HexDigits[n + 1]>>
    ELSE HexOf(n \div 16) \o <<HexDigits[(n % 16) + 1]>>
\* f"{n:0Wx}" with fill "0", f"{n:Wx}" with fill " ": the digits, filled on
\* the left up to the width; more digits than the width are all kept
FormatHex(n, width, fill) ==
    [k \in 1..(width - Len(HexOf(n))) |-> fill] \o HexOf(n)
\* bytes.hex()
bytes_hex(b) ==
    [k \in 1..(2 * Len(b)) |-> FormatHex(b[(k + 1) \div 2], 2, "0")[2 - (k % 2)]]
\* value of a hexadecimal digit, -1 for any other character
HexValues ==
    [c \in Range(HexDigits) \cup Range(UpperHexDigits) |->
        (CHOOSE k \in 1..16 : HexDigits[k] = c \/ UpperHexDigits[k] = c) - 1]
HexValue(c) == IF c \in DOMAIN HexValues THEN HexValues[c] ELSE -1
AsciiWhitespace == {" ", "\t", "\n", "\r", "\f"}
\* bytearray.fromhex(s): whitespace is skipped between bytes; an odd digit
\* or any other character raises ValueError
fromhex(s) ==
    LET NotSpace(c) == c \notin AsciiWhitespace
        digits == SelectSeq(s, NotSpace)
        \* whitespace between the two digits of one byte
        split == \E i \in DOMAIN s :
                    /\ s[i] \in AsciiWhitespace
                    /\ Len(SelectSeq(SubSeq(s, 1, i), NotSpace)) % 2 = 1
    IN  IF \/ Len(digits) % 2 = 1
           \/ \E k \in DOMAIN digits : HexValue(digits[k]) < 0
           \/ split
        THEN [err |-> TRUE, bytes |-> <<>>]
        ELSE [err |-> FALSE,
              bytes |-> [k \in 1..(Len(digits) \div 2) |->
                           16 * HexValue(digits[2 * k - 1]) + HexValue(digits[2 * k])]]
\* a in b, for str
IsSubstring(a, b) ==
    \E i \in 0..(Len(b) - Len(a)) : SubSeq(b, i + 1, i + Len(a)) = a

\* ElecraftLiveRadio._cmd_get_memory(number)
cmd_get_memory(number) ==
    LET address == MEM_START + number * MEM_LEN
        message == FormatHex(address, 4, "0") \o FormatHex(MEM_LEN, 2, "0")
        checksum == compute_checksum(fromhex(message).bytes)
    IN  READ_CMD \o message \o FormatHex(checksum, 2, " ")

\* ElecraftLiveRadio._cmd_set_memory(number, byt)
cmd_set_memory(number, byt) ==
    LET address == MEM_START + number * MEM_LEN
        payload == SubSeq(byt, 1, Len(byt) - 1)
        first == Xor((SumSeq(payload) - 1) % 256, 255, 8)
        added == first + (address % 256) + ((address \div 256) % 256) + MEM_LEN
        checksum == Xor(added % 256, 255, 8)
        message == bytes_hex(payload)
    IN  WRIT_CMD \o FormatHex(address, 4, "0") \o FormatHex(MEM_LEN, 2, "0")
        \o message \o FormatHex(checksum, 2, "0")

\* the frame _command writes for command(pipe, *cmd): cmd is its first
\* character, args the others, joined by LAST_DELIMITER[1] = ""
command_frame(text) == text \o <<DELIMITER>>

\* chirp_common.Memory()
Memory == [number |-> 0, extd_number |-> "", empty |-> FALSE, data |-> <<>>]
NoMem == [number |-> -1, extd_number |-> "", empty |-> FALSE, data |-> <<>>]
Raised(what, cache, sent) ==
    [raised |-> what, ret |-> NoMem, cache |-> cache, sent |-> sent]
Returns(mem, cache, sent) ==
    [raised |-> None, ret |-> mem, cache |-> cache, sent |-> sent]

\* ElecraftLiveRadio.ret_empty(number, mem)
ret_empty(number, mem, cache, sent) ==
    LET m == [mem EXCEPT !.number = number, !.empty = TRUE]
        at == PyIndex(Len(KX_SPECIALS), number - upper - 1)
    IN  IF number <= upper THEN Returns(m, (number :> m) @@ cache, sent)
        ELSE IF at < 0 THEN Raised("IndexError", (number :> m) @@ cache, sent)
        ELSE LET n == [m EXCEPT !.extd_number = KX_SPECIALS[at + 1]]
             IN  Returns(n, (number :> n) @@ cache, sent)

\* ElecraftLiveRadio.get_memory, the tests on the response of command():
\* what the call does with it, and the bytes of the record
response_kind(result) ==
    LET ln == Len(result)
        hx == fromhex(SubSeq(result, 3, ln))
        byt == hx.bytes
        is(kind) == [kind |-> kind, byt |-> <<>>]
    IN  IF IsSubstring(result, <<"N", "E", "?">>) THEN is("ret_empty")
        ELSE IF ~IsSubstring(READ_CMD, result) THEN is("RadioError")
        ELSE IF hx.err THEN is("ValueError")
        ELSE IF ckadd(byt) # 0 THEN is("ret_empty")
        ELSE IF ln <= 11 THEN is("ret_empty")
        ELSE IF ln # 138 THEN is("UnboundLocalError")
        ELSE IF Len(byt) < FMT_SIZE THEN is("struct.error")
        ELSE IF byt[4] = 255 THEN is("blank")
        ELSE [kind |-> "record", byt |-> SubSeq(byt, 1, FMT_SIZE)]

\* the record the radio keeps for a number: address, length, 64 bytes, and
\* the checksum byte
Tuned == <<14, 7, 40, 0, 0>> \o [k \in 1..(MEM_LEN - 5) |-> 0]
Blank == [k \in 1..MEM_LEN |-> 255]
RadioFrame(number, data) ==
    LET address == MEM_START + number * MEM_LEN
        body == <<address \div 256, address % 256, MEM_LEN>> \o data
    IN  Append(body, compute_checksum(body))
\* lengths at which the deadline of command() can cut a response
CutLengths == {0, 1, 2, 3, 4, 10, 11, 12, 137}
\* what command() can return for the read command of a number: the record,
\* the record with a byte changed, a response cut by the deadline, an error
\* token, the answer to an earlier command, an answer without data
Results(number) ==
    LET whole == READ_CMD \o bytes_hex(RadioFrame(number, Tuned))
        frame == RadioFrame(number, Tuned)
    IN  {whole, READ_CMD \o bytes_hex(RadioFrame(number, Blank))}
        \cup {READ_CMD \o bytes_hex([frame EXCEPT ![k] = (@ + 1) % 256]) :
                k \in {1, FMT_SIZE}}
        \cup {SubSeq(whole, 1, k) : k \in CutLengths}
        \cup {<<"?">>, <<"K", "X", "3">>}
        \cup {READ_CMD \o bytes_hex(RadioFrame(number, <<>>))}

\* the canonical number get_memory puts in mem.number, -1 for a str that
\* is no special's name (SPECIALS.index raises ValueError)
canonical(number) ==
    IF ~number.str THEN number.num
    ELSE IF ListIndex(KX_SPECIALS, number.name) < 0 THEN -1
    ELSE ListIndex(KX_SPECIALS, number.name) + upper + 1

LiveNumbers == {0, 150}
LiveRefs ==
    {NumRef(n) : n \in LiveNumbers}
    \cup {NameRef(s) : s \in {KX_SPECIALS[1], KX_SPECIALS[51], "160 M5"}}
\* the numbers the calls of the model read
ReadNumbers == {canonical(r) : r \in LiveRefs} \ {-1}

\* the pure parts of get_memory, computed once for the numbers and the
\* responses of the model
ReadResults == [n \in ReadNumbers |-> Results(n)]
ReadFrames == [n \in ReadNumbers |-> command_frame(cmd_get_memory(n))]
ResponseKinds ==
    [r \in UNION {ReadResults[n] : n \in ReadNumbers} |-> response_kind(r)]

\* ElecraftLiveRadio.get_memory from the response of command() on
get_memory_result(mem, result, cache, sent) ==
    LET k == ResponseKinds[result]
    IN  CASE k.kind = "ret_empty" -> ret_empty(mem.number, mem, cache, sent)
          [] k.kind = "blank" -> Returns([mem EXCEPT !.empty = TRUE], cache, sent)
          [] k.kind = "record" ->
                LET m == [mem EXCEPT !.data = k.byt]
                IN  Returns(m, (mem.number :> m) @@ cache, sent)
          [] OTHER -> Raised(k.kind, cache, sent)

\* ElecraftLiveRadio.get_memory(number), result being what command() returns
get_memory(number, result, cache) ==
    IF ~number.str /\ number.num \in DOMAIN cache /\ ~NOCACHE
    THEN Returns(cache[number.num], cache, <<>>)
    ELSE IF canonical(number) < 0 THEN Raised("ValueError", cache, <<>>)
    ELSE LET mem == IF number.str
                    THEN [Memory EXCEPT !.number = canonical(number),
                                        !.extd_number = number.name]
                    ELSE [Memory EXCEPT !.number = number.num]
         IN  get_memory_result(mem, result, cache, ReadFrames[mem.number])

\* EMPTY_DATA, and what pack(FMT, *_mem) gives for a record of the radio
EMPTY_DATA == [k \in 1..126 |-> 255]
WriteData == {EMPTY_DATA} \cup {RadioFrame(n, Tuned) : n \in ReadNumbers}
WriteCommands ==
    [n \in ReadNumbers |-> [byt \in WriteData |-> cmd_set_memory(n, byt)]]

LiveNone ==
    [op |-> "none", arg |-> NumRef(0), byt |-> <<>>, cmd |-> <<>>,
     sent |-> <<>>, result |-> <<>>, raised |-> None, ret |-> NoMem]
\* no frequency was converted; the bank editor is not open
FreqNone == [op |-> "none", driver |-> "none", f |-> 0, raised |-> None,
             byt |-> <<>>, back |-> 0]
\* chirp_common.Memory as the bank editor uses it
EdMemory(number, extd_number, empty) ==
    [number |-> number, extd_number |-> extd_number, empty |-> empty]
EdNoMemory == EdMemory(-1, "", FALSE)
RowNone == [row |-> -1, raised |-> None, ret |-> EdNoMemory]
ConvIdle ==
    /\ freq_last = FreqNone
    /\ memory_bounds = <<0, 0>>
    /\ memory_cache = <<>>
    /\ grid_rows = <<>>
    /\ row_last = RowNone
LiveIdle ==
    /\ NOCACHE = FALSE
    /\ memcache = <<>>
    /\ live = LiveNone
    /\ ConvIdle

\* one call of get_memory
GetMemory ==
    \E number \in LiveRefs :
        \E result \in ReadResults[IF canonical(number) < 0 THEN 0 ELSE canonical(number)] :
            LET out == get_memory(number, result, memcache)
            IN  /\ live' = [op |-> "get_memory", arg |-> number, byt |-> <<>>,
                            cmd |-> SubSeq(out.sent, 1, Len(out.sent) - 1),
                            sent |-> out.sent,
                            result |-> IF out.sent = <<>> THEN <<>> ELSE result,
                            raised |-> out.raised, ret |-> out.ret]
                /\ memcache' = out.cache
                /\ UNCHANGED <<NOCACHE, slotvars, ckvars, bankvars, linkvars, convvars>>

\* set_memory up to the command it builds (nothing is sent: the call of
\* command() is commented out in the source)
SetMemory ==
    \E number \in ReadNumbers, byt \in WriteData :
        /\ live' = [op |-> "set_memory", arg |-> NumRef(number), byt |-> byt,
                    cmd |-> WriteCommands[number][byt],
                    sent |-> <<>>, result |-> <<>>, raised |-> None,
                    ret |-> NoMem]
        /\ UNCHANGED <<NOCACHE, memcache, slotvars, ckvars, bankvars, linkvars, convvars>>

\* iserr(result)
iserr(result) == result \in {<<"N">>, <<"?">>}
\* del cache[number]
Deleted(cache, number) ==
    IF DOMAIN cache \ {number} = {} THEN <<>>
    ELSE [n \in DOMAIN cache \ {number} |-> cache[n]]

\* erase_memory that forgets the memory before it looks at the response
erase_memory_forgets(number, resp, cache) ==
    IF number \notin DOMAIN cache THEN Returns(NoMem, cache, <<>>)
    ELSE LET sent == command_frame(WriteCommands[number][EMPTY_DATA])
         IN  IF iserr(resp) THEN Raised("RadioError", Deleted(cache, number), sent)
             ELSE Returns(NoMem, Deleted(cache, number), sent)

\* ElecraftLiveRadio.erase_memory(number), resp being what command() returns
erase_memory(number, resp, cache) ==
    IF number \notin DOMAIN cache THEN Returns(NoMem, cache, <<>>)
    ELSE LET sent == command_frame(WriteCommands[number][EMPTY_DATA])
         IN  IF iserr(resp) THEN Raised("RadioError", cache, sent)
             ELSE Returns(NoMem, Deleted(cache, number), sent)

\* what command() can return for a write command: an error token, nothing
\* before the deadline, the radio's answer
WriteResults == {<<"?">>, <<"N">>, <<>>, WRIT_CMD}

\* one call of erase_memory
EraseMemory ==
    \E number \in ReadNumbers, resp \in WriteResults :
        LET out == erase_memory(number, resp, memcache)
        IN  /\ live' = [op |-> "erase_memory", arg |-> NumRef(number),
                        byt |-> IF out.sent = <<>> THEN <<>> ELSE EMPTY_DATA,
                        cmd |-> SubSeq(out.sent, 1, Len(out.sent) - 1),
                        sent |-> out.sent,
                        result |-> IF out.sent = <<>> THEN <<>> ELSE resp,
                        raised |-> out.raised, ret |-> out.ret]
            /\ memcache' = out.cache
            /\ UNCHANGED <<NOCACHE, slotvars, ckvars, bankvars, linkvars, convvars>>

LiveNext == GetMemory \/ SetMemory \/ EraseMemory

(***************************************************************************)
(* ft1d.py: FT1Radio.get_memory and set_memory                             *)
(***************************************************************************)
\* the keys of YAESU_PRESETS
YAESU_PRESETS ==
    {"WX" \o ToString(i) : i \in 1..10}
    \cup {"Marine" \o ToString(i) : i \in (1..28) \cup (60..88)}
    \cup {"SWL" \o ToString(i) : i \in 1..89}
\* the arrays of self._presets
PresetArrays == {"wx_chan", "marine", "sw_chan"}

\* the place of a slot in the memory image: its array and index
SlotKey(slot) == <<slot.array, slot.at>>
\* flags and contents of one slot: flag.used, flag.valid, flag.pskip or
\* flag.skip as the letter get_memory makes of them, whether the record
\* reads as blank (charsetbits 0xffff and dcs 0x7f), and the record
SlotImage(used, valid, skip, blank, data) ==
    [used |-> used, valid |-> valid, skip |-> skip, blank |-> blank,
     data |-> data]

\* FT1Radio.get_memory(number): the exception raised or the Memory returned
\* when slotloc(number) gave slot
ft_get_memory(number, slot) ==
    IF slot.err # None THEN [raised |-> slot.err, ret |-> FtNoMemory]
        ELSE LET img == ft_mem[SlotKey(slot)]
                 extd == IF slot.array = "memory" THEN "" ELSE slot.ename.name
                 flagged == slot.flag # None
                 skip == IF flagged THEN img.skip ELSE ""
                 empty == IF flagged THEN ~img.used \/ ~img.valid
                          ELSE img.blank
                 contents == IF empty THEN "default" ELSE img.data
                 preset == slot.array \in PresetArrays
                 found == number.str /\ number.name \in YAESU_PRESETS
             IN  [raised |-> None,
                  ret |-> FtMemory(slot.num, extd,
                                   IF preset THEN ~found ELSE empty, skip,
                                   IF preset /\ found
                                   THEN "preset " \o number.name
                                   ELSE contents)]

\* get_memory_mappings(mem): the banks that hold the number
get_memory_mappings(n) == {b \in Banks : n \in channel_numbers_in_bank(b)}
\* a _debank that takes the memory out of the first bank that holds it only
debank_first(n) ==
    LET holders == get_memory_mappings(n)
        first == {b \in holders : \A c \in holders : b <= c}
        left(b) == channel_numbers_in_bank(b) \ {n}
    IN  [members |-> [b \in Banks |->
                        IF b \in first
                        THEN update_bank_with_channel_numbers(
                                 bank_members[b], left(b)).channel
                        ELSE bank_members[b]],
         used |-> [b \in Banks |->
                     IF b \in first /\ left(b) = {} THEN UNUSED
                     ELSE bank_used[b]],
         last |-> IF holders = {} THEN bank_last
                  ELSE LastCall("remove", CHOOSE b \in first : TRUE, n, "ok")]
\* _set_mode and _debank: remove_memory_from_mapping(mem, bank) for every
\* bank of get_memory_mappings(mem); the arrays, the sentinels and the bank
\* model's last call afterwards
debank(n) ==
    LET holders == get_memory_mappings(n)
        left(b) == channel_numbers_in_bank(b) \ {n}
    IN  [members |-> [b \in Banks |->
                        IF b \in holders
                        THEN update_bank_with_channel_numbers(
                                 bank_members[b], left(b)).channel
                        ELSE bank_members[b]],
         used |-> [b \in Banks |->
                     IF b \in holders /\ left(b) = {} THEN UNUSED
                     ELSE bank_used[b]],
         last |-> IF holders = {} THEN bank_last
                  ELSE LastCall("remove",
                                CHOOSE b \in holders : \A c \in holders : c <= b,
                                n, "ok")]

\* the special names and the numbers the calls are made with: the first
\* Skip, PMS and Home channel, a preset that is a key of YAESU_PRESETS and
\* one that is none, and the first ordinary channel
FtNames == {"Skip901", "L1", "AM", "Marine29", "SWL89"}
FtNumberOf(name) == slotloc(NameRef(name), None).num
FtNumbers == {1} \cup {FtNumberOf(name) : name \in FtNames}
\* the special channels set_memory is called for
FtSetNames == {"Skip901", "AM", "SWL89"}
FtRefs == {NumRef(n) : n \in FtNumbers} \cup {NameRef(name) : name \in FtNames}
\* slotloc(number) for the numbers and names of the calls
FtSlots == [ref \in FtRefs |-> slotloc(ref, None)]
FtKeys == {SlotKey(FtSlots[ref]) : ref \in FtRefs}
\* the memories set_memory is called with: as get_memory by name or by
\* number returned them (extd_number the name, None or ""), empty or not;
\* and one whose number and extd_number name different channels
FtArgs ==
    {FtMemory(1, "", empty, "S", "b") : empty \in BOOLEAN}
    \cup UNION {{FtMemory(FtNumberOf(name), e, empty, "", "b") :
                    e \in {name, None}, empty \in BOOLEAN} : name \in FtSetNames}
    \cup {FtMemory(1, "Skip901", FALSE, "", "b")}
\* slotloc(mem.number, mem.extd_number) for the memories of the calls
FtArgSlots == [mem \in FtArgs |-> slotloc(NumRef(mem.number), mem.extd_number)]
MaxMemCalls == 2

\* FT1Radio.get_memory
FtGetMemory ==
    \E number \in FtRefs :
        /\ ft_last.calls < MaxMemCalls
        /\ ft_last' = [FtNone EXCEPT
                          !.op = "get_memory", !.ref = number,
                          !.raised = ft_get_memory(number, FtSlots[number]).raised,
                          !.ret = ft_get_memory(number, FtSlots[number]).ret,
                          !.calls = ft_last.calls + 1]
        /\ UNCHANGED <<ft_mem, slot_ref, slot_res, slot_prev, ckvars, bankvars,
                       linkvars, livevars, convvars>>

\* FT1Radio.set_memory(mem); masked says whether mem.freq is in one of the
\* ranges that are masked from VFO B (the ordinary channel is given such a
\* frequency, the others are not)
FtSetMemory ==
    \E mem \in FtArgs : \E masked \in {mem.number = 1} :
        /\ ft_last.calls < MaxMemCalls
        /\ LET slot == FtArgSlots[mem]
               key == SlotKey(slot)
               img == ft_mem[key]
               flagged == slot.flag # None
               done(raised) ==
                   ft_last' = [FtNone EXCEPT !.op = "set_memory", !.mem = mem,
                                             !.masked = masked, !.raised = raised,
                                             !.ref = NumRef(IF slot.err = None
                                                            THEN slot.num ELSE 0),
                                             !.calls = ft_last.calls + 1]
               out == debank(mem.number)
           IN  IF slot.err # None
               THEN /\ done(slot.err)
                    /\ UNCHANGED <<ft_mem, bankvars>>
               ELSE IF slot.array \in PresetArrays
               THEN /\ done(None)
                    /\ UNCHANGED <<ft_mem, bankvars>>
               ELSE IF mem.empty
               THEN /\ done(None)
                    /\ ft_mem' = [ft_mem EXCEPT ![key] =
                                     [img EXCEPT !.data = "wiped", !.blank = FALSE,
                                                 !.used = IF flagged THEN FALSE
                                                          ELSE @]]
                    /\ UNCHANGED bankvars
               ELSE /\ done(None)
                    /\ ft_mem' = [ft_mem EXCEPT ![key] =
                                     IF slot.array = "Home"
                                     THEN [img EXCEPT !.data = mem.contents,
                                                      !.blank = FALSE]
                                     ELSE SlotImage(TRUE, TRUE, mem.skip, FALSE,
                                                    mem.contents)]
                    /\ bank_members' = out.members
                    /\ bank_used' = out.used
                    /\ bank_last' = out.last
                    /\ flag_nosubvfo' =
                          IF slot.array # "memory" THEN flag_nosubvfo
                          ELSE IF masked THEN flag_nosubvfo \cup {slot.at}
                          ELSE flag_nosubvfo \ {slot.at}
                    /\ UNCHANGED vfo_info
        /\ UNCHANGED <<slot_ref, slot_res, slot_prev, ckvars, linkvars, livevars, convvars>>

MemNext == FtGetMemory \/ FtSetMemory

(***************************************************************************)
(* elecraft.py and kx3.py: the five-byte frequency encoding                *)
(***************************************************************************)
\* int.to_bytes(1, "big") takes 0..255
FitsByte(n) == n \in 0..255
\* what bytes(ss, 'cp1252') makes of chr(n): the code points of the C1
\* range and those above 0xFF have no cp1252 byte
Cp1252Byte(n) == n \in (0..127) \cup (160..255)

\* elecraft.freq_to_radio(f)
freq_to_radio(f) ==
    IF f = -1 THEN [raised |-> None, byt |-> <<255, 255, 255, 255, 255>>]
    ELSE LET bm == f \div 1000000
             f1 == f - bm * 1000000
             bT == f1 \div 10000
             f2 == f1 - bT * 10000
             bt == f2 \div 100
             f3 == f2 - bt * 100
             bh == f3 \div 10
             bo == f3 - bh * 10
         IN  IF \E n \in {bm, bT, bt, bh, bo} : ~FitsByte(n)
             THEN [raised |-> "OverflowError", byt |-> <<>>]
             ELSE [raised |-> None, byt |-> <<bm, bT, bt, bh, bo>>]

\* elecraft.radio_to_freq(b): b[0] is an int and never equals b'\xFF'
radio_to_freq(b) ==
    b[1] * 1000000 + b[2] * 10000 + b[3] * 100 + b[4] * 10 + b[5]

\* ElecraftLiveRadio.freq_to_radio(freq)
live_freq_to_radio(freq) ==
    LET c1 == freq \div 1000000
        rem1 == freq % 1000000
        c2 == rem1 \div 10000
        rem2 == rem1 % 1000
        c3 == rem2 \div 100
        rem3 == rem2 % 100
        c4 == rem3 \div 10
        c5 == rem3 % 10
    IN  IF \E n \in {c1, c2, c3, c4, c5} : ~Cp1252Byte(n)
        THEN [raised |-> "UnicodeEncodeError", byt |-> <<>>]
        ELSE [raised |-> None, byt |-> <<c1, c2, c3, c4, c5>>]

\* ElecraftLiveRadio.radio_to_freq(byt)
live_radio_to_freq(byt) ==
    IF byt[1] = 255 THEN -1
    ELSE byt[1] * 1000000 + byt[2] * 10000 + byt[3] * 100 + byt[4] * 10
         + byt[5]

\* rf.valid_bands of the KX3, in both drivers
valid_bands == <<<<310000, 32000000>>, <<44000000, 54000000>>>>
InBands(f) ==
    \E k \in DOMAIN valid_bands : valid_bands[k][1] <= f /\ f < valid_bands[k][2]
\* the frequencies converted: every combination of a few values of the five
\* digit groups that lies in a band, and the edges of the bands
FreqSamples ==
    {f \in {m * 1000000 + t * 10000 + h * 100 + d * 10 + o :
              m \in {0, 7, 31, 44, 53}, t \in {0, 31, 99},
              h \in {0, 10, 74, 99}, d \in {0, 9}, o \in {0, 9}} : InBands(f)}
    \cup {valid_bands[k][1] : k \in DOMAIN valid_bands}
    \cup {valid_bands[k][2] - 1 : k \in DOMAIN valid_bands}
Drivers == {"clone", "live"}

\* one call of freq_to_radio
FreqToRadio ==
    \E driver \in Drivers, f \in FreqSamples :
        LET out == IF driver = "clone" THEN freq_to_radio(f)
                   ELSE live_freq_to_radio(f)
        IN  /\ freq_last' = [op |-> "freq_to_radio", driver |-> driver,
                             f |-> f, raised |-> out.raised, byt |-> out.byt,
                             back |-> 0]
            /\ UNCHANGED <<memory_bounds, memory_cache, grid_rows, row_last,
                           slotvars, ckvars, bankvars, linkvars, livevars>>

\* radio_to_freq of the bytes the last freq_to_radio returned
RadioToFreq ==
    /\ freq_last.op = "freq_to_radio" /\ freq_last.raised = None
    /\ freq_last' = [freq_last EXCEPT
                       !.op = "radio_to_freq",
                       !.back = IF freq_last.driver = "clone"
                                THEN radio_to_freq(freq_last.byt)
                                ELSE live_radio_to_freq(freq_last.byt)]
    /\ UNCHANGED <<memory_bounds, memory_cache, grid_rows, row_last,
                   slotvars, ckvars, bankvars, linkvars, livevars>>

FreqNext == FreqToRadio \/ RadioToFreq

(***************************************************************************)
(* wxui/bankedit.py: ChirpBankEdit, rows and memories                      *)
(***************************************************************************)
MaxSpecials == 3
MaxChannels == 2
\* self._specials: the first names of FT1BankModel.get_bankable_specials()
EdSpecials == SubSeq(YAESUNAMES, 1, MaxSpecials)
\* memory_bounds of the radios: counted from 0 or from 1
EdBounds == {<<lower, lower + MaxChannels - 1>> : lower \in {0, 1}}
\* the keys of _memory_cache: mem.extd_number or mem.number
EdKeys(bounds) ==
    {NumRef(n) : n \in bounds[1]..bounds[2]}
    \cup {NameRef(EdSpecials[k]) : k \in DOMAIN EdSpecials}
\* the numbers the radio gives the specials
EdNumbers == [k \in DOMAIN EdSpecials |-> slotloc(NameRef(EdSpecials[k]), None).num]
\* self._radio.get_memory(key) of a radio in which the channels in empties
\* are empty
EdGetMemory(key, empties) ==
    IF key.str
    THEN EdMemory(EdNumbers[ListIndex(EdSpecials, key.name) + 1], key.name,
                  key \in empties)
    ELSE EdMemory(key.num, "", key \in empties)
\* the rows of the grid
EdRows(bounds) == 0..(bounds[2] - bounds[1] + Len(EdSpecials))

\* ChirpBankEdit.mem2row(mem)
mem2row(mem) ==
    IF mem.extd_number # ""
    THEN IF ListIndex(EdSpecials, mem.extd_number) < 0
         THEN [raised |-> "ValueError", row |-> -1]
         ELSE [raised |-> None,
               row |-> memory_bounds[2] - memory_bounds[1]
                       + ListIndex(EdSpecials, mem.extd_number) + 1]
    ELSE [raised |-> None, row |-> mem.number - memory_bounds[1]]

\* ChirpBankEdit.row2mem(row)
row2mem(row) ==
    LET number == row + memory_bounds[1]
        at == PyIndex(Len(EdSpecials),
                      row - memory_bounds[2] - memory_bounds[1] - 1)
    IN  IF NumRef(number) \in DOMAIN memory_cache
        THEN [raised |-> None, ret |-> memory_cache[NumRef(number)]]
        ELSE IF at < 0 THEN [raised |-> "IndexError", ret |-> EdNoMemory]
        ELSE IF NameRef(EdSpecials[at + 1]) \notin DOMAIN memory_cache
        THEN [raised |-> "KeyError", ret |-> EdNoMemory]
        ELSE [raised |-> None, ret |-> memory_cache[NameRef(EdSpecials[at + 1])]]

\* ChirpBankEdit.refresh_memories: the cache is emptied, and every ordinary
\* channel and every special is read from the radio and given to
\* _refresh_memory, which caches it, labels its row and hides or shows it
RefreshMemories ==
    \E empties \in SUBSET EdKeys(memory_bounds) :
        LET cache == [key \in EdKeys(memory_bounds) |-> EdGetMemory(key, empties)]
            of(row) == CHOOSE key \in DOMAIN cache : mem2row(cache[key]).row = row
        IN  /\ memory_cache' = cache
            /\ grid_rows' =
                  [row \in EdRows(memory_bounds) |->
                      [label |-> IF of(row).str THEN of(row).name
                                 ELSE ToString(of(row).num),
                       hidden |-> cache[of(row)].empty]]
            /\ UNCHANGED <<memory_bounds, row_last, freq_last, slotvars, ckvars,
                           bankvars, linkvars, livevars>>

\* one call of row2mem, as _cell_changing makes it for the row of the event
Row2Mem ==
    \E row \in EdRows(memory_bounds) :
        /\ row_last' = [row |-> row, raised |-> row2mem(row).raised,
                        ret |-> row2mem(row).ret]
        /\ UNCHANGED <<memory_bounds, memory_cache, grid_rows, freq_last,
                       slotvars, ckvars, bankvars, linkvars, livevars>>

EditNext == RefreshMemories \/ Row2Mem

SlotNext == SlotCall \/ SlotAgain
CkNext == CkAppend \/ CkReceive \/ CkVerify

(***************************************************************************)
(* Claims on slotloc                                                       *)
(***************************************************************************)
SpecialNumbers == {slotloc(NameRef(s), None).num : s \in Range(ALLNAMES)}
FromSpecialName == slot_ref.memref.str /\ slot_ref.memref.name \in Range(ALLNAMES)

\* C2: every special name resolves to a number in MAX_MEM_SLOT+1 ..
\* MAX_MEM_SLOT+(number of special names), distinct names resolve to distinct
\* numbers, and resolving that number yields the same array and index as
\* resolving the name.
C2_RoundTrip ==
    /\ Cardinality(Range(ALLNAMES)) = TotalSpecials
    /\ SpecialNumbers = (MAX_MEM_SLOT + 1)..(MAX_MEM_SLOT + TotalSpecials)
    /\ (FromSpecialName /\ slot_res # Pending) =>
          /\ slot_res.err = None
          /\ slot_res.num \in (MAX_MEM_SLOT + 1)..(MAX_MEM_SLOT + TotalSpecials)
          /\ SPECIALS[CHOOSE g \in DOMAIN SPECIALS : SPECIALS[g][1] = slot_res.array][2]
                [slot_res.ndx + 1] = slot_ref.memref.name
    /\ (/\ slot_prev # Pending /\ slot_res # Pending
        /\ slot_prev.ename.str /\ slot_prev.ename.name \in Range(ALLNAMES)) =>
          /\ slot_res.err = None
          /\ slot_res.num = slot_prev.num
          /\ slot_res.store = slot_prev.store
          /\ slot_res.array = slot_prev.array
          /\ slot_res.ndx = slot_prev.ndx
          /\ slot_res.at = slot_prev.at
          /\ slot_res.flag = slot_prev.flag

\* the last name of the last group was resolved, then its number
C2_Witness ==
    /\ slot_prev # Pending /\ slot_prev.ename = NameRef("SWL89")
    /\ slot_res # Pending /\ slot_res.err = None
    /\ slot_res.array = "sw_chan" /\ slot_res.ndx = 88
    /\ slot_ref.memref = NumRef(MAX_MEM_SLOT + TotalSpecials)

(***************************************************************************)
(* Claims on the checksum                                                  *)
(***************************************************************************)
\* C3: the checksum byte appended to any byte sequence makes the sum of all
\* the bytes zero modulo 256, and get_memory accepts a received record
\* exactly when its bytes sum to zero modulo 256.
C3_ChecksumSumsToZero ==
    /\ ck_frame # <<>> =>
          /\ Len(ck_frame) = Len(ck_payload) + 1
          /\ ck_frame[Len(ck_frame)] \in 0..255
          /\ SumSeq(ck_frame) % 256 = 0
    /\ ck_ok # "none" => (ck_ok = "accepted" <=> SumSeq(ck_rx) % 256 = 0)
    /\ (ck_ok # "none" /\ ck_rx = ck_frame) => ck_ok = "accepted"

\* a payload whose sum wraps past 255 was sent, received intact and accepted
C3_Witness ==
    /\ Len(ck_payload) = 2 /\ SumSeq(ck_payload) > 256
    /\ ck_rx = ck_frame /\ ck_ok = "accepted"

(***************************************************************************)
(* Claims on bank membership                                               *)
(***************************************************************************)
LastOk(op) == bank_last.op = op /\ bank_last.result = "ok"
\* the call that the step just taken made (bank_last' names it)
Did(op) == bank_last'.op = op
MembersBefore == channel_numbers_in_bank(bank_last'.bank)
MembersAfter ==
    channel_numbers(bank_used'[bank_last'.bank], bank_members'[bank_last'.bank])
BankUntouched(b) == bank_used'[b] = bank_used[b] /\ bank_members'[b] = bank_members[b]

\* C4: after a successful add the bank's decoded set contains the channel;
\* after a successful remove it no longer contains it and every other
\* member is still there.
C4_AddThenRemove ==
    [][/\ (Did("add") /\ bank_last'.result = "ok") =>
            bank_last'.chan \in MembersAfter
       /\ (Did("remove") /\ bank_last'.result = "ok") =>
            /\ bank_last'.chan \in MembersBefore
            /\ bank_last'.chan \notin MembersAfter
            /\ MembersAfter = MembersBefore \ {bank_last'.chan}]_vars

\* the last channel, which only an add can have put there, was removed from
\* a bank that keeps two other members
C4_Witness ==
    /\ LastOk("remove") /\ bank_last.chan = MAX_MEM_SLOT
    /\ channel_numbers_in_bank(bank_last.bank) = {1, 1111}

StrictlyAscendingThenUnused(channel) ==
    \E n \in 0..Len(channel) :
        /\ \A k \in 1..n : channel[k] # UNUSED
        /\ \A k \in 1..(n - 1) : channel[k] < channel[k + 1]
        /\ \A k \in (n + 1)..Len(channel) : channel[k] = UNUSED

\* C5: after any successful add or remove the bank's member array is a
\* strictly ascending run of used entries followed only by 0xFFFF entries.
C5_SortedAfterUpdate ==
    (LastOk("add") \/ LastOk("remove")) =>
        /\ Len(bank_members[bank_last.bank]) = BankWidth
        /\ StrictlyAscendingThenUnused(bank_members[bank_last.bank])

\* the smallest channel was added last to a bank holding two larger ones
C5_Witness ==
    /\ LastOk("add") /\ bank_last.chan = 1
    /\ bank_members[bank_last.bank] = Image(<<0, MAX_MEM_SLOT - 1, 1110>>)

\* C6: removing a channel that is not in the bank's decoded set fails and
\* leaves the bank's member array and sentinel unchanged; that includes
\* every remove on a bank whose sentinel is 'unused'.
C6_RemoveNotAMember ==
    [][(Did("remove") /\ bank_last'.chan \notin MembersBefore) =>
            /\ bank_last'.result = "NotAMember"
            /\ BankUntouched(bank_last'.bank)]_vars

\* a remove failed on a bank in use that holds other members
C6_Witness ==
    /\ bank_last.op = "remove" /\ bank_last.result = "NotAMember"
    /\ bank_used[bank_last.bank] = IN_USE
    /\ Cardinality(channel_numbers_in_bank(bank_last.bank)) = BankWidth

\* a remove failed on a bank whose sentinel is 'unused' over stale entries
C6_WitnessUnused ==
    /\ bank_last.op = "remove" /\ bank_last.result = "NotAMember"
    /\ bank_used[bank_last.bank] = UNUSED
    /\ bank_members[bank_last.bank] # Image(<<>>)

\* C7: adding a channel that is not a member to a bank that holds as many
\* members as its array is wide fails and leaves the member array and the
\* sentinel unchanged; no bank ever holds more members than that.
C7_BankFull ==
    [][/\ (/\ Did("add") /\ bank_last'.chan \notin MembersBefore
            /\ Cardinality(MembersBefore) = BankWidth) =>
            /\ bank_last'.result = "InvalidValueError"
            /\ BankUntouched(bank_last'.bank)
       /\ \A b \in Banks :
            Cardinality(channel_numbers(bank_used'[b], bank_members'[b])) <= BankWidth]_vars

\* an add failed on a full bank
C7_Witness ==
    /\ bank_last.op = "add" /\ bank_last.result = "InvalidValueError"
    /\ Cardinality(channel_numbers_in_bank(bank_last.bank)) = BankWidth
    /\ bank_last.chan \notin channel_numbers_in_bank(bank_last.bank)

(***************************************************************************)
(* Claims on update_vfo                                                    *)
(***************************************************************************)
PairUnchanged(i) ==
    /\ vfo_info'[2 * i] = vfo_info[2 * i]
    /\ vfo_info'[2 * i + 1] = vfo_info[2 * i + 1]

\* C8: for every VFO pair whose master and backup checksums differ,
\* update_vfo reports the divergence and modifies neither block, whatever
\* the bank membership is.
C8_DivergenceReported ==
    [][Did("update_vfo") =>
         \A i \in {0, 1} :
            ~SameChecksum(vfo_info, i) =>
                (i \in bank_last'.warned /\ PairUnchanged(i))]_vars

\* the part of C8 that the code keeps: a pair whose checksums differ is
\* never written, and it is reported whenever the scan of the banks ends
C8_NoWriteOnDivergence ==
    [][Did("update_vfo") =>
         \A i \in {0, 1} :
            ~SameChecksum(vfo_info, i) =>
                /\ PairUnchanged(i)
                /\ bank_last'.result = "ok" => i \in bank_last'.warned]_vars

\* master and backup agree on the fields update_vfo mirrors
Mirrored(i) ==
    /\ vfo_info[2 * i].bank_index = vfo_info[2 * i + 1].bank_index
    /\ vfo_info[2 * i].mr_index = vfo_info[2 * i + 1].mr_index
    /\ vfo_info[2 * i].bank_enable = vfo_info[2 * i + 1].bank_enable
BanksEnabled(i) == vfo_info[2 * i].bank_index # UNUSED
AnyBankHasMembers == \E b \in Banks : channel_numbers_in_bank(b) # {}
TwiceInARow == bank_last.op = "update_vfo" /\ Did("update_vfo")

\* C9 as stated: update_vfo changes nothing when the checksums match, the
\* backup mirrors the master and the master has banks enabled exactly when
\* some bank has members; a second call in a row changes nothing.
C9_NoOpAsStated ==
    [][Did("update_vfo") =>
         /\ \A i \in {0, 1} :
               (/\ SameChecksum(vfo_info, i) /\ Mirrored(i)
                /\ BanksEnabled(i) <=> AnyBankHasMembers) => PairUnchanged(i)
         /\ TwiceInARow => vfo_info' = vfo_info]_vars

\* C9, amended: update_vfo changes nothing when the checksums match, the
\* backup mirrors the master and the master has banks enabled exactly when
\* the call's scan of the banks chooses a bank and channel for that VFO
\* (for VFO B only a channel that is no preset and whose flag is not
\* nosubvfo); a second call in a row changes nothing.
C9_NoOpWhenSettled ==
    [][Did("update_vfo") =>
         /\ bank_last'.result # "ok" => vfo_info' = vfo_info
         /\ \A i \in {0, 1} :
               (/\ SameChecksum(vfo_info, i) /\ Mirrored(i)
                /\ bank_last'.result = "ok"
                /\ BanksEnabled(i) <=> (bank_last'.chosen_bank[i + 1] # NoChoice))
               => PairUnchanged(i)
         /\ TwiceInARow => vfo_info' = vfo_info]_vars

\* a second call in a row was made after a first one that enabled banks for
\* VFO A and mirrored the master of VFO B into its backup
C9_Witness ==
    /\ bank_last.op = "update_vfo" /\ bank_last.calls = 2
    /\ bank_last.result = "ok"
    /\ bank_last.chosen_bank[1] # NoChoice /\ bank_last.chosen_bank[2] = NoChoice
    /\ vfo_info[0].bank_index = bank_last.chosen_bank[1]
    /\ vfo_info[0].mr_index = bank_last.chosen_mr[1]
    /\ vfo_info[1] = vfo_info[0]
    /\ vfo_info[2] = VfoDisabled(17) /\ vfo_info[3] = vfo_info[2]
    /\ AnyBankHasMembers

(***************************************************************************)
(* Claims on the serial link                                               *)
(***************************************************************************)
\* C1: no write or read on the port made by one thread happens between the
\* frame write and the end of the response read of another thread's command.
C1_OneOperationAtATime == link_last.during = {}

\* every write or read on the port is made by the holder of LOCK
C1_AccessUnderLock ==
    link_last.kind # "none" => link_last.holder = link_last.thread

Descending(s) == \A i, j \in DOMAIN s : i < j => s[i] > s[j]

\* C10 as stated: get_id probes the rate of the last success after all the
\* other candidate rates.
C10_LastBaudLast ==
    \A t \in IdThreads :
        th[t].prior \in Range(th[t].probed) =>
            Range(th[t].probed) = Range(BAUDS)

\* C10, amended: get_id probes the rate of the last success first, and after
\* it the other candidate rates from the highest to the lowest, none twice.
C10_LastBaudFirst ==
    \A t \in IdThreads :
        LET p == th[t].probed
        IN  p # <<>> =>
              /\ p[1] = th[t].prior
              /\ Descending(Tail(p))
              /\ Range(Tail(p)) \subseteq Range(BAUDS) \ {th[t].prior}

\* after a success at 9600 no rate identified the radio: all six were
\* probed, 9600 first
C10_Witness ==
    \E t \in IdThreads :
        /\ th[t].prior = 9600
        /\ th[t].outcome = "NoResponse"
        /\ th[t].probed = <<9600, 115200, 57600, 38400, 19200, 4800>>

\* get_id has ended in thread t, and nothing else was called since
GetIdEnded(t) ==
    /\ th[t].pc = "idle"
    /\ th[t].outcome \in {"model", "NoResponse", "UnicodeDecodeError"}

\* C11: an Elecraft radio that talks at the rate of the last success and
\* whose answers each arrive whole before the read after their frame
\* returns, on a port with no earlier response under way, is identified by
\* get_id after one probe: no other rate was set on the port.
C11_OneProbe ==
    \A t \in IdThreads :
        (/\ GetIdEnded(t) /\ th[t].prompt
         /\ dev_baud = th[t].prior /\ dev_kind \in {"model", "code"}) =>
            /\ th[t].outcome = "model"
            /\ th[t].probed = <<th[t].prior>>
            /\ port_baudrate = th[t].prior

\* a radio answering with a bare code at 9600, the rate of the last success,
\* was identified by the first probe
C11_Witness ==
    \E t \in IdThreads :
        /\ GetIdEnded(t) /\ th[t].prompt
        /\ th[t].prior = 9600 /\ dev_baud = 9600 /\ dev_kind = "code"
        /\ th[t].outcome = "model"
        /\ th[t].probed = <<9600>>

NoRateTwice(p) == \A i, j \in DOMAIN p : i # j => p[i] # p[j]

\* C12: get_id probes no rate twice, and when it ends without a model it
\* has probed each of the six rates and ends with NoResponse, never
\* otherwise.
C12_NoResponseWhenExhausted ==
    \A t \in IdThreads :
        /\ NoRateTwice(th[t].probed)
        /\ GetIdEnded(t) /\ th[t].outcome # "model" =>
              /\ th[t].outcome = "NoResponse"
              /\ Len(th[t].probed) = Len(BAUDS)
              /\ Range(th[t].probed) = Range(BAUDS)

\* get_id ends with NoResponse only after it has probed each rate once
C12_NoResponseOnlyExhausted ==
    \A t \in IdThreads :
        /\ NoRateTwice(th[t].probed)
        /\ GetIdEnded(t) /\ th[t].outcome = "NoResponse" =>
              /\ Len(th[t].probed) = Len(BAUDS)
              /\ Range(th[t].probed) = Range(BAUDS)

\* a call of get_id that has started ends
C12_Terminates ==
    \A t \in IdThreads : (th[t].outcome = "running") ~> (th[t].pc = "idle")

\* C13: when get_id has returned a model, LAST_BAUD is the rate at which the
\* radio was identified, the last one probed.
C13_LastBaudIsSuccessRate ==
    \A t \in IdThreads :
        GetIdEnded(t) /\ th[t].outcome = "model" =>
            LAST_BAUD = th[t].probed[Len(th[t].probed)]

\* the same for a radio that answers the identity command with a model
\* string, at once or after the error token
C13_LastBaudAfterModelString ==
    \A t \in IdThreads :
        GetIdEnded(t) /\ th[t].outcome = "model" /\ dev_kind = "model" =>
            LAST_BAUD = th[t].probed[Len(th[t].probed)]

\* command has returned a value in thread t
Returned(t) == th[t].pc \in {"cmd_exit", "cmd_done"} /\ ~th[t].raised

Blanks(n) == [i \in 1..n |-> " "]
\* s without the blanks at its ends is r
StrippedTo(s, r) ==
    /\ r # <<>> => Head(r) # " " /\ r[Len(r)] # " "
    /\ \E i, j \in 0..Len(s) : s = Blanks(i) \o r \o Blanks(j)

\* C14 as stated: command returns the accumulated response without one
\* trailing delimiter when it ends with the delimiter, and the accumulated
\* response as it is when the deadline passed before that.
C14_ReturnsAccumulated ==
    \A t \in Threads :
        Returned(t) => th[t].ret = command_return_unstripped(Text(th[t].result))

\* C14, amended: command returns the accumulated response without one
\* trailing delimiter when it ends with the delimiter, and the accumulated
\* response when the deadline passed before that, in both cases without
\* the blanks at its two ends.
C14_ReturnsStripped ==
    \A t \in Threads :
        Returned(t) =>
            LET txt == Text(th[t].result)
                n == Len(txt)
            IN  IF n > 0 /\ txt[n] = DELIMITER
                THEN StrippedTo(SubSeq(txt, 1, n - 1), th[t].ret)
                ELSE StrippedTo(txt, th[t].ret)

\* the deadline passed after the first part of an answer, "ID ", and command
\* returned "ID"
C14_Witness ==
    \E t \in Threads :
        /\ Returned(t)
        /\ th[t].result = <<"mhead">>
        /\ th[t].ret = <<"I", "D">>

(***************************************************************************)
(* More claims on slotloc                                                  *)
(***************************************************************************)
GroupOf(array) == CHOOSE g \in DOMAIN SPECIALS : SPECIALS[g][1] = array
RECURSIVE SizesBefore(_)
SizesBefore(g) ==
    IF g <= 1 THEN 0 ELSE Len(SPECIALS[g - 1][2]) + SizesBefore(g - 1)
\* the call gave a number, and no special name beside it
ByNumber == ~slot_ref.memref.str /\ slot_ref.extref \notin Range(ALLNAMES)

\* C15: slotloc resolves a number n of 1..MAX_MEM_SLOT to array 'memory' and
\* index n-1, and a number n above MAX_MEM_SLOT to the group g and index i
\* with n = MAX_MEM_SLOT + 1 + (sizes of the groups before g) + i and
\* 0 <= i < size(g); MAX_MEM_SLOT + 1 is ('Skip', 0).
C15_NumberMapping ==
    (ByNumber /\ slot_res # Pending) =>
        LET n == slot_ref.memref.num
        IN  /\ (1 <= n /\ n <= MAX_MEM_SLOT) =>
                  /\ slot_res.err = None
                  /\ slot_res.array = "memory"
                  /\ slot_res.ndx = n - 1
                  /\ slot_res.num = n
            /\ (MAX_MEM_SLOT < n /\ n <= MAX_MEM_SLOT + TotalSpecials) =>
                  /\ slot_res.err = None
                  /\ slot_res.array # "memory"
                  /\ slot_res.num = n
                  /\ LET g == GroupOf(slot_res.array)
                     IN  /\ n = MAX_MEM_SLOT + 1 + SizesBefore(g) + slot_res.ndx
                         /\ 0 <= slot_res.ndx
                         /\ slot_res.ndx < Len(SPECIALS[g][2])
            /\ n = MAX_MEM_SLOT + 1 =>
                  slot_res.array = "Skip" /\ slot_res.ndx = 0

\* with 900 ordinary channels and 99 Skip names, number 901 was resolved to
\* ('Skip', 0)
C15_Witness ==
    /\ ByNumber /\ slot_res # Pending
    /\ slot_ref.memref.num = 901
    /\ slot_res.array = "Skip" /\ slot_res.ndx = 0
    /\ MAX_MEM_SLOT = 900 /\ Len(SKIPNAMES) = 99

(***************************************************************************)
(* More claims on the bank model                                           *)
(***************************************************************************)
Active(used) == used # UNUSED
\* the entries a member array holds, whatever the sentinel says
Entries(members) == Range(members) \ {UNUSED}

\* C17: per bank the in-use sentinel goes from unused to active only on a
\* successful add to that bank, and from active to unused only on a
\* successful remove from that bank that leaves no member; a failed add or
\* remove changes no sentinel, a successful add leaves the bank active, and
\* a successful remove that leaves members leaves the bank active.
C17_SentinelTransitions ==
    [][\A b \in Banks :
         LET ok == bank_last'.result = "ok" /\ bank_last'.bank = b
         IN  /\ (~Active(bank_used[b]) /\ Active(bank_used'[b])) =>
                    (ok /\ Did("add"))
             /\ (Active(bank_used[b]) /\ ~Active(bank_used'[b])) =>
                    (ok /\ Did("remove") /\ Entries(bank_members'[b]) = {})
             /\ ((Did("add") \/ Did("remove")) /\ bank_last'.result # "ok") =>
                    bank_used'[b] = bank_used[b]
             /\ (ok /\ Did("add")) => bank_used'[b] = IN_USE
             /\ (ok /\ Did("remove") /\ Entries(bank_members'[b]) = {}) =>
                    bank_used'[b] = UNUSED
             /\ (ok /\ Did("remove") /\ Entries(bank_members'[b]) # {}) =>
                    (Active(bank_used'[b]) /\ bank_used'[b] = bank_used[b])]_vars

\* the remove of its only member has made a bank unused, while the other
\* bank, to which channel 1111 was added, is active
C17_Witness ==
    /\ LastOk("remove")
    /\ bank_used[bank_last.bank] = UNUSED
    /\ bank_members[bank_last.bank] = Image(<<>>)
    /\ \E b \in Banks \ {bank_last.bank} :
          /\ bank_used[b] = IN_USE
          /\ channel_numbers_in_bank(b) = {1111}

\* the entries of a member array that carry the preset bit pattern: one of
\* the bits 12 to 14 (0x7000) is set
PresetEntries(members) ==
    {e \in Entries(members) : (e \div 4096) % 8 # 0}

\* C21: after any add or remove of another channel on an active bank, every
\* member entry with the preset bit pattern 0x7000 that was in the bank
\* before is still in the bank's member array with the same value.
C21_PresetsKept ==
    [][(Did("add") \/ Did("remove")) =>
          \A b \in Banks :
             Active(bank_used[b]) =>
                \A e \in PresetEntries(bank_members[b]) :
                   (b # bank_last'.bank \/ bank_last'.chan # e + 1) =>
                      /\ e \in PresetEntries(bank_members'[b])
                      /\ Active(bank_used'[b])]_vars

\* a channel was added to, and then removed from, a bank that holds a
\* preset entry: the entry is the bank's only member again
C21_Witness ==
    /\ LastOk("remove")
    /\ bank_last.chan = 1
    /\ bank_used[bank_last.bank] = IN_USE
    /\ bank_members[bank_last.bank] = Image(<<4101>>)

\* a smaller channel was added to a bank that holds a preset entry, which
\* moved up by one position
C21_WitnessAdd ==
    /\ LastOk("add")
    /\ bank_last.chan = 1
    /\ bank_members[bank_last.bank] = Image(<<0, 4101>>)

ByUnknownName ==
    /\ slot_ref.memref.str
    /\ slot_ref.memref.name \notin Range(ALLNAMES)
\* the call gave a number outside 1 .. MAX_MEM_SLOT + number of specials
ByNumberOutOfRange ==
    /\ ByNumber
    /\ \/ slot_ref.memref.num < 1
       \/ slot_ref.memref.num > MAX_MEM_SLOT + TotalSpecials

\* C16: slotloc fails with IndexError for every name that is in no declared
\* group and for every number outside 1 .. MAX_MEM_SLOT + (number of
\* specials), 0 and negative numbers included; no element of a backing array
\* is returned then.
C16_OutOfRangeFails ==
    ((ByUnknownName \/ ByNumberOutOfRange) /\ slot_res # Pending) =>
        slot_res = SlotError("IndexError")

\* the parts of C16 that the code keeps: unknown names, and numbers above the
\* last special or below -MemNum + 1, fail with IndexError
C16_UnknownNameFails ==
    (ByUnknownName /\ slot_res # Pending) => slot_res = SlotError("IndexError")
C16_FarOutOfRangeFails ==
    ( /\ ByNumber /\ slot_res # Pending
      /\ \/ slot_ref.memref.num > MAX_MEM_SLOT + TotalSpecials
         \/ slot_ref.memref.num < 1 - MemNum ) =>
        slot_res = SlotError("IndexError")
\* numbers 1 - MemNum .. 0 resolve to the element of 'memory' counted from
\* its end
C16_WrapsAround ==
    ( /\ ByNumber /\ slot_res # Pending
      /\ slot_ref.memref.num <= 0 /\ slot_ref.memref.num >= 1 - MemNum ) =>
        /\ slot_res.err = None
        /\ slot_res.array = "memory"
        /\ slot_res.at = MemNum - 1 + slot_ref.memref.num

(***************************************************************************)
(* Claims on the live radio's memory commands                              *)
(***************************************************************************)
\* get_memory sent a read command and got live.result from command()
DidRead == live.op = "get_memory" /\ live.sent # <<>>
\* the radio's error answer "?;" as command() returns it
ErrorToken(result) == result = <<"?">>
\* a response that is the mnemonic and whole bytes whose sum is not zero
FailsChecksum(result) ==
    /\ Len(result) >= 2 /\ SubSeq(result, 1, 2) = READ_CMD
    /\ ~fromhex(SubSeq(result, 3, Len(result))).err
    /\ SumSeq(fromhex(SubSeq(result, 3, Len(result))).bytes) % 256 # 0
\* a response with no room for data behind mnemonic, address, length and
\* checksum
TooShort(result) == Len(result) <= 11
EmptyRecordReturned ==
    /\ live.raised = None
    /\ live.ret.empty
    /\ live.ret.number = canonical(live.arg)

\* C18: a read whose response fails the checksum test, is an error token or
\* is too short to carry data makes get_memory return an empty record for
\* that channel number; no error is raised.
C18_EmptyOnBadResponse ==
    ( /\ DidRead
      /\ \/ ErrorToken(live.result)
         \/ FailsChecksum(live.result)
         \/ TooShort(live.result) ) => EmptyRecordReturned

\* the parts of C18 that the code keeps: an error token and a failed
\* checksum test give an empty record, which is cached
C18_EmptyOnErrorToken ==
    (DidRead /\ ErrorToken(live.result)) =>
        (EmptyRecordReturned /\ memcache[live.ret.number] = live.ret)
C18_EmptyOnChecksumFailure ==
    (DidRead /\ FailsChecksum(live.result)) =>
        (EmptyRecordReturned /\ memcache[live.ret.number] = live.ret)
\* a response of at most 11 characters raises exactly when it does not hold
\* the mnemonic (and is no part of "NE?") or holds an odd hex digit
C18_ShortResponseRaises ==
    (DidRead /\ TooShort(live.result)) =>
        /\ live.raised \in {None, "RadioError", "ValueError"}
        /\ live.raised = "RadioError" <=>
              /\ ~IsSubstring(live.result, <<"N", "E", "?">>)
              /\ ~IsSubstring(READ_CMD, live.result)
        /\ live.raised = "ValueError" =>
              fromhex(SubSeq(live.result, 3, Len(live.result))).err
        /\ live.raised = None => EmptyRecordReturned

\* the text of the command sent, without the delimiter
SentCommand == live.cmd
\* the value of a run of hexadecimal digits, most significant first
RECURSIVE HexNumber(_)
HexNumber(s) ==
    IF s = <<>> THEN 0
    ELSE 16 * HexNumber(SubSeq(s, 1, Len(s) - 1)) + HexValue(s[Len(s)])
ReadAddress == MEM_START + canonical(live.arg) * MEM_LEN

\* C20: for every channel number 0..199 the read command is the mnemonic,
\* 4 hex digits of the address, 2 hex digits of the length and 2 hex digits
\* of the checksum, ten characters with every field zero-padded hex, and
\* the address MEM_START + number * MEM_LEN fits in 16 bits.
C20_ReadCommandFormat ==
    DidRead =>
        /\ canonical(live.arg) \in 0..(upper + Len(KX_SPECIALS))
        /\ ReadAddress < 65536
        /\ Len(SentCommand) = 10
        /\ SubSeq(SentCommand, 1, 2) = READ_CMD
        /\ \A k \in 3..10 : HexValue(SentCommand[k]) >= 0
        /\ HexNumber(SubSeq(SentCommand, 3, 6)) = ReadAddress
        /\ HexNumber(SubSeq(SentCommand, 7, 8)) = MEM_LEN
        /\ HexNumber(SubSeq(SentCommand, 9, 10)) =
              compute_checksum(<<ReadAddress \div 256, ReadAddress % 256, MEM_LEN>>)

\* the part of C20 that the code keeps: ten characters, address and length
\* in zero-padded hex, and a checksum field that holds the checksum once
\* its fill is skipped
C20_ReadCommandFields ==
    DidRead =>
        /\ ReadAddress < 65536
        /\ Len(SentCommand) = 10
        /\ SubSeq(SentCommand, 1, 2) = READ_CMD
        /\ \A k \in 3..8 : HexValue(SentCommand[k]) >= 0
        /\ HexNumber(SubSeq(SentCommand, 3, 6)) = ReadAddress
        /\ HexNumber(SubSeq(SentCommand, 7, 8)) = MEM_LEN
        /\ HexNumber(lstrip(SubSeq(SentCommand, 9, 10))) =
              compute_checksum(<<ReadAddress \div 256, ReadAddress % 256, MEM_LEN>>)
        /\ SentCommand[9] = " " <=>
              compute_checksum(<<ReadAddress \div 256, ReadAddress % 256, MEM_LEN>>) < 16

\* set_memory built a write command
DidWrite == live.op = "set_memory"
WriteAddress == MEM_START + live.arg.num * MEM_LEN
\* the bytes the write command carries after the mnemonic
WriteBytes == fromhex(SubSeq(live.cmd, 3, Len(live.cmd))).bytes
\* the payload of the write command: byt[:-1]
WritePayload == SubSeq(live.byt, 1, Len(live.byt) - 1)

\* C19: the checksum byte of every write command is compute_checksum of
\* the address bytes, the length byte and the payload bytes, so that
\* address + length + payload + checksum sums to zero modulo 256.
C19_WriteChecksum ==
    DidWrite =>
        /\ WriteBytes =
              Append(<<WriteAddress \div 256, WriteAddress % 256, MEM_LEN>>
                        \o WritePayload,
                     compute_checksum(<<WriteAddress \div 256, WriteAddress % 256,
                                        MEM_LEN>> \o WritePayload))
        /\ SumSeq(WriteBytes) % 256 = 0

\* what the code computes instead: the command carries address, length and
\* payload, and a last byte equal to (sum of the payload - address bytes -
\* length - 1) modulo 256, with which the bytes never sum to zero
C19_WriteChecksumAsComputed ==
    DidWrite =>
        /\ ~fromhex(SubSeq(live.cmd, 3, Len(live.cmd))).err
        /\ SubSeq(live.cmd, 1, 2) = WRIT_CMD
        /\ SubSeq(WriteBytes, 1, Len(WriteBytes) - 1) =
              <<WriteAddress \div 256, WriteAddress % 256, MEM_LEN>> \o WritePayload
        /\ WriteBytes[Len(WriteBytes)] =
              (SumSeq(WritePayload) - (WriteAddress \div 256)
                 - (WriteAddress % 256) - MEM_LEN - 1) % 256
        /\ SumSeq(WriteBytes) % 256 # 0

\* the step just taken was a call of set_memory or erase_memory that the
\* radio answered with an error token
WriteRejected ==
    /\ live'.op \in {"set_memory", "erase_memory"}
    /\ live'.sent # <<>>
    /\ ErrorToken(live'.result)

\* C22: whenever the radio answers a write or erase command with an error
\* token, the operation raises an error and the memory cache is as it was
\* before the operation.
C22_RejectedWriteSurfaces ==
    [][WriteRejected => (live'.raised = "RadioError" /\ memcache' = memcache)]_vars

\* an erase was rejected with "?" and the memory is still cached
C22_Witness ==
    /\ live.op = "erase_memory"
    /\ live.sent # <<>>
    /\ ErrorToken(live.result)
    /\ live.raised = "RadioError"
    /\ live.arg.num \in DOMAIN memcache

\* set_memory sends no command, so the radio never answers it; erase_memory
\* sends the write command of EMPTY_DATA only for a cached number
C22_WhatIsSent ==
    /\ live.op = "set_memory" => (live.sent = <<>> /\ live.raised = None)
    /\ (live.op = "erase_memory" /\ live.sent # <<>>) =>
          live.sent = command_frame(cmd_set_memory(live.arg.num, EMPTY_DATA))

(***************************************************************************)
(* Claims on the response wait of command                                  *)
(***************************************************************************)
\* the last character accumulated is the delimiter
LastIsDelimiter(toks) ==
    LET txt == Text(toks) IN txt # <<>> /\ txt[Len(txt)] = DELIMITER
\* thread t does a turn of the read loop in this step
Turn(t) == th[t].pc = "cmd_read" /\ th'[t] # th[t]

\* C23 as stated: the wait goes on reading only while no delimiter has been
\* seen in the accumulated input.
C23_StopsWhenDelimiterSeen ==
    [][\A t \in Threads :
          (Turn(t) /\ th'[t].pc = "cmd_read") =>
              DELIMITER \notin Range(Text(th'[t].result))]_vars

\* C23, amended: the response wait of command always ends: every call that
\* left the loop did at least one read; after each read the loop goes on
\* exactly when the bytes decoded, the accumulated input does not end with
\* the delimiter and the deadline has not passed; and a call that waits
\* leaves the loop.
C23_WaitEnds ==
    /\ [][\A t \in Threads :
             Turn(t) =>
                 /\ th'[t].reads = th[t].reads + 1
                 /\ th'[t].pc \in {"cmd_read", "cmd_exit"}
                 /\ th'[t].pc = "cmd_read" <=>
                        ~(th'[t].raised \/ th'[t].late
                             \/ LastIsDelimiter(th'[t].result))]_vars
    /\ [](\A t \in Threads :
             th[t].pc \in {"cmd_exit", "cmd_done"} => th[t].reads >= 1)
    /\ \A t \in Threads : (th[t].pc = "cmd_read") ~> (th[t].pc = "cmd_exit")

\* a call is still waiting after a read that left a delimiter inside the
\* accumulated input: an error token and the first part of the next answer
C23_Witness ==
    \E t \in Threads :
        /\ th[t].pc = "cmd_read"
        /\ th[t].reads >= 1
        /\ DELIMITER \in Range(Text(th[t].result))
        /\ ~LastIsDelimiter(th[t].result)

\* C24: command never retries: a call has written no frame before its
\* port.write and exactly one frame from then on, through every turn of the
\* read loop and at its end, whether a response arrived, the response is the
\* error token, or the deadline passed.
C24_OneFramePerCall ==
    \A t \in Threads :
        /\ th[t].pc \in {"cmd_lock", "cmd_write"} => th[t].writes = 0
        /\ th[t].pc \in {"cmd_read", "cmd_exit", "cmd_done"} => th[t].writes = 1

\* a call ended by the deadline with nothing received, having written one
\* frame
C24_Witness ==
    \E t \in Threads :
        /\ th[t].pc = "cmd_done"
        /\ th[t].late
        /\ th[t].result = <<>>
        /\ th[t].writes = 1
\* a call that returned the error token, having written one frame
C24_WitnessErrorToken ==
    \E t \in Threads :
        /\ th[t].pc = "cmd_done"
        /\ th[t].ret = <<"?">>
        /\ th[t].writes = 1

(***************************************************************************)
(* More claims on get_id                                                   *)
(***************************************************************************)
\* thread t takes the step of get_id that follows the command of a stage
After(t, stage) ==
    /\ th[t].pc = "cmd_done"
    /\ th[t].stage = stage
    /\ th'[t] # th[t]
\* the identity commands among the frames written for the current rate
Identities(t) == SelectSeq(th[t].issued, LAMBDA f : f = "ID")

\* C25: when the answer to the identity command at a rate is the error
\* token, get_id sends the identity command once more at the same rate, and
\* returns the model parsed from the answer when that answer names one; no
\* rate gets more than two identity commands.
C25_ReissueOnce ==
    [][\A t \in IdThreads :
          /\ (After(t, "iden") /\ ~th[t].raised /\ th[t].ret = <<"?">>) =>
                 /\ th'[t].pc = "cmd_lock"
                 /\ th'[t].stage = "retry"
                 /\ th'[t].k = th[t].k
                 /\ port_baudrate' = port_baudrate
          /\ (th[t].stage = "retry" /\ th[t].pc \in {"cmd_read", "cmd_exit"}) =>
                 /\ Len(Identities(t)) = 2
                 /\ port_baudrate = th[t].bauds[th[t].k]
          /\ (After(t, "retry") /\ ~th[t].raised /\ HasSpace(th[t].ret)) =>
                 /\ th'[t].outcome = "model"
                 /\ th'[t].pc = "idle"
                 /\ \E i \in 1..Len(th[t].ret) :
                        /\ th[t].ret[i] = " "
                        /\ " " \notin Range(SubSeq(th[t].ret, 1, i - 1))
                        /\ \E j \in i..Len(th[t].ret) :
                               /\ th'[t].model = SubSeq(th[t].ret, i + 1, j)
                               /\ " " \notin Range(th'[t].model)
                               /\ j < Len(th[t].ret) => th[t].ret[j + 1] = " "
          /\ Len(Identities(t)) <= 2]_vars

\* the reissued identity command, the second one for this rate, returned
\* "ID K3"
C25_Witness ==
    \E t \in IdThreads :
        /\ th[t].pc = "cmd_done"
        /\ th[t].stage = "retry"
        /\ th[t].resp = <<"?">>
        /\ th[t].ret = <<"I", "D", " ", "K", "3">>
        /\ th[t].issued = <<"ID", "ID">>

\* s ends with suf
EndsWith(s, suf) ==
    /\ Len(s) >= Len(suf)
    /\ SubSeq(s, Len(s) - Len(suf) + 1, Len(s)) = suf
\* the model the claim names for a reply to the extended-info command
ModelBySuffix(xt) ==
    IF EndsWith(xt, <<"4", "-", "-", "-">>) THEN <<"K", "4">>
    ELSE IF EndsWith(xt, <<"-", "-">>) THEN <<"K", "3">>
    ELSE IF EndsWith(xt, <<"0", "1">>) THEN <<"K", "X", "2">>
    ELSE IF EndsWith(xt, <<"0", "2">>) THEN <<"K", "X", "3">>
    ELSE <<"E", "l", "e", "c", "r", "a", "f", "t">>
\* the bare identity code of the radios
BareCode == <<"I", "D", "0", "1", "7">>

\* C26: when the answer to the identity command is a bare code of the
\* table, get_id sends the extended-info command, once, and returns the
\* model its reply selects: K4 for a reply ending "4---", else K3 for "--",
\* else KX2 for "01", else KX3 for "02", else the generic model of the code.
C26_ResolvesBySuffix ==
    [][\A t \in IdThreads :
          /\ (\/ After(t, "iden") /\ ~HasError(th[t].ret)
              \/ After(t, "retry")) /\ ~th[t].raised /\ th[t].ret = BareCode =>
                 /\ th'[t].pc = "cmd_lock"
                 /\ th'[t].stage = "xtra"
                 /\ "OM" \notin Range(th[t].issued)
          /\ (After(t, "xtra") /\ ~th[t].raised) =>
                 /\ th[t].resp = BareCode
                 /\ Len(SelectSeq(th[t].issued, LAMBDA f : f = "OM")) = 1
                 /\ th'[t].pc = "idle"
                 /\ th'[t].outcome = "model"
                 /\ th'[t].model = ModelBySuffix(th[t].ret)]_vars

\* get_id returned K4 for a reply that ends with "4---", and so with "--"
C26_Witness ==
    \E t \in IdThreads :
        /\ th[t].outcome = "model"
        /\ th[t].pc = "idle"
        /\ th[t].model = <<"K", "4">>
\* get_id returned the generic model for a reply no rule matches
C26_WitnessGeneric ==
    \E t \in IdThreads :
        /\ th[t].outcome = "model"
        /\ th[t].model = <<"E", "l", "e", "c", "r", "a", "f", "t">>

\* get_id goes on with the next rate, or ends with the final RadioError
\* after the last one, in the step thread t takes
Continues(t) ==
    \/ /\ th[t].k < Len(th[t].bauds)
       /\ th'[t].pc = "id_poke"
       /\ th'[t].k = th[t].k + 1
       /\ th'[t].outcome = "running"
    \/ /\ th[t].k = Len(th[t].bauds)
       /\ th'[t].pc = "idle"
       /\ th'[t].outcome = "NoResponse"

\* C27: a response of get_id's commands that does not decode (to the
\* identity command, to the reissued one or to the extended-info command)
\* makes get_id go on with the next rate; it ends get_id with no error
\* other than the final RadioError.
C27_DecodeFailureContinues ==
    [][\A t \in IdThreads :
          (\E stage \in {"iden", "retry", "xtra"} : After(t, stage))
              /\ th[t].raised => Continues(t)]_vars

\* the part of C27 that holds: a response to the first identity command of
\* a rate that does not decode makes get_id go on with the next rate
C27_FirstCommandContinues ==
    [][\A t \in IdThreads :
          After(t, "iden") /\ th[t].raised => Continues(t)]_vars

\* C28: LAST_BAUD changes only when get_id returns a model: when get_id
\* moves on to the next rate, and when it has ended without a model,
\* LAST_BAUD is what it was when get_id started.
C28_LastBaudKept ==
    \A t \in IdThreads :
        \/ th[t].outcome = "running" /\ th[t].pc = "id_poke"
        \/ th[t].outcome \in {"NoResponse", "UnicodeDecodeError"}
        => LAST_BAUD = th[t].prior

\* the part of C28 that holds: a rate whose first identity command was not
\* answered by an error token leaves LAST_BAUD as it was unless it returns
\* a model
C28_KeptWithoutReissue ==
    [][\A t \in IdThreads :
          After(t, "iden") /\ th'[t].outcome # "model" =>
              LAST_BAUD' = LAST_BAUD]_vars

(***************************************************************************)
(* More claims on update_vfo                                               *)
(***************************************************************************)
\* master and backup of VFO i agree on the mirrored fields after the step
MirroredAfter(i) ==
    /\ vfo_info'[2 * i + 1].bank_index = vfo_info'[2 * i].bank_index
    /\ vfo_info'[2 * i + 1].mr_index = vfo_info'[2 * i].mr_index
    /\ vfo_info'[2 * i + 1].bank_enable = vfo_info'[2 * i].bank_enable

C30_OtherBanksUntouched ==
    [][(Did("add") \/ Did("remove")) =>
          \A b \in Banks \ {bank_last'.bank} :
             /\ bank_members'[b] = bank_members[b]
             /\ bank_used'[b] = bank_used[b]
             /\ \A n \in channel_numbers(bank_used[b], bank_members[b]) :
                    n \in channel_numbers(bank_used'[b], bank_members'[b])]_vars

\* the channel just added to one bank is a member of every bank
C30_Witness ==
    /\ LastOk("add")
    /\ \A b \in Banks : bank_last.chan \in channel_numbers_in_bank(b)
    /\ Cardinality(Banks) > 1
\* a remove that failed, next to a bank that holds the channel
C30_WitnessFailed ==
    /\ bank_last.op = "remove" /\ bank_last.result = "NotAMember"
    /\ \E b \in Banks \ {bank_last.bank} :
          bank_last.chan \in channel_numbers_in_bank(b)

(***************************************************************************)
(* Claims on the sentinel and the member array together                    *)
(***************************************************************************)
\* the sentinel of every bank is 'unused' exactly when its member array
\* holds no used entry
SentinelsAgree ==
    \A b \in Banks : bank_used[b] = UNUSED <=> Entries(bank_members[b]) = {}

\* C31: from an image in which every bank's sentinel is 'unused' exactly
\* when its member array holds no used entry, every add and remove, failed
\* or not, leads to an image of which the same is true, and in which every
\* bank's sentinel is 'unused' exactly when its decoded member set is empty.
C31_SentinelMatchesMembers ==
    [][((Did("add") \/ Did("remove")) /\ SentinelsAgree) =>
          \A b \in Banks :
             /\ bank_used'[b] = UNUSED <=> Entries(bank_members'[b]) = {}
             /\ bank_used'[b] = UNUSED <=>
                    channel_numbers(bank_used'[b], bank_members'[b]) = {}]_vars

\* the remove of a bank's last member has made the bank unused and emptied
\* its array, while another bank is in use and holds a member
C31_Witness ==
    /\ LastOk("remove")
    /\ SentinelsAgree
    /\ bank_used[bank_last.bank] = UNUSED
    /\ \E b \in Banks : bank_used[b] = IN_USE /\ channel_numbers_in_bank(b) # {}

(***************************************************************************)
(* Claims on FT1Radio.set_memory and the banks                             *)
(***************************************************************************)
\* the step is a set_memory that has returned
DidSet == ft_last'.op = "set_memory" /\ ft_last'.calls # ft_last.calls
             /\ ft_last'.raised = None
\* the memory of the step names one channel that is no preset: its number is
\* the number of the slot that slotloc finds for it
NamesOneChannel ==
    /\ FtArgSlots[ft_last'.mem].array \notin PresetArrays
    /\ FtArgSlots[ft_last'.mem].num = ft_last'.mem.number
\* the channels of bank b after the step
channel_numbers_after(b) == channel_numbers(bank_used'[b], bank_members'[b])

\* C32: a set_memory that stores a non-empty record into the ordinary, Skip,
\* PMS or Home channel n leaves n a member of no bank and changes the
\* membership of no other channel.
C32_StoredChannelLeavesBanks ==
    [][(DidSet /\ NamesOneChannel /\ ~ft_last'.mem.empty) =>
          \A b \in Banks :
             /\ ft_last'.mem.number \notin channel_numbers_after(b)
             /\ channel_numbers_after(b) \ {ft_last'.mem.number}
                   = channel_numbers_in_bank(b) \ {ft_last'.mem.number}]_vars

\* the last call is a set_memory of a non-empty record for the channel
\* called name that has returned
StoredInto(name) ==
    /\ ft_last.op = "set_memory" /\ ft_last.raised = None
    /\ ~ft_last.mem.empty
    /\ ft_last.mem.number = FtArgSlots[ft_last.mem].num
    /\ ft_last.mem.extd_number = name
\* the set_memory took the channel out of the last bank, which holds other
\* channels still, and no bank holds it now
TakenOutOfBanks ==
    /\ bank_last = LastCall("remove", NumBanks - 1, ft_last.mem.number, "ok")
    /\ channel_numbers_in_bank(NumBanks - 1) # {}
    /\ \A b \in Banks : ft_last.mem.number \notin channel_numbers_in_bank(b)
\* a Skip channel that every bank held has been stored
C32_Witness == StoredInto("Skip901") /\ TakenOutOfBanks
\* a Home channel, which has no flag, has been stored
C32_WitnessHome == StoredInto("AM") /\ TakenOutOfBanks

\* C33: a set_memory that stores an empty record into the channel n (which
\* deletes it) leaves n a member of no bank.
C33_DeletedChannelLeavesBanks ==
    [][(DidSet /\ NamesOneChannel /\ ft_last'.mem.empty) =>
          \A b \in Banks :
             ft_last'.mem.number \notin channel_numbers_after(b)]_vars

(***************************************************************************)
(* Claims on the cache of ElecraftLiveRadio                                *)
(***************************************************************************)
\* the step is a get_memory, with the cache enabled, for the channel of
\* which the call before it was a get_memory that returned a record
ReadAgain ==
    /\ ~NOCACHE
    /\ live.op = "get_memory" /\ live.raised = None
    /\ live'.op = "get_memory"
    /\ canonical(live'.arg) = live.ret.number

\* C34: with the cache enabled, a get_memory for a channel of which an
\* earlier get_memory returned a record, called by canonical number or by
\* special name, sends no command and returns that record.
C34_SecondReadFromCache ==
    [][ReadAgain => (live'.sent = <<>> /\ live'.ret = live.ret)]_vars

\* the part that holds: a get_memory by number for a number that is in the
\* cache sends no command and returns the cached record
C34_ByNumberFromCache ==
    [][(~NOCACHE /\ live'.op = "get_memory" /\ ~live'.arg.str
           /\ live'.arg.num \in DOMAIN memcache) =>
          (live'.sent = <<>> /\ live'.ret = memcache[live'.arg.num]
             /\ memcache' = memcache)]_vars

(***************************************************************************)
(* Claims on FT1Radio.get_memory by name and by number                     *)
(***************************************************************************)
\* the step is a get_memory by the canonical number that the get_memory by
\* special name before it returned
ByNumberAfterByName ==
    /\ ft_last.op = "get_memory" /\ ft_last.ref.str /\ ft_last.raised = None
    /\ ft_last'.op = "get_memory" /\ ft_last'.calls # ft_last.calls
    /\ ft_last'.ref = NumRef(ft_last.ret.number)

\* C35: get_memory by a special name and get_memory by that name's
\* canonical number return records with the same number, extended name,
\* emptiness and contents.
C35_ByNameAndByNumberAgree ==
    [][ByNumberAfterByName =>
          /\ ft_last'.raised = None
          /\ ft_last'.ret.number = ft_last.ret.number
          /\ ft_last'.ret.extd_number = ft_last.ret.extd_number
          /\ ft_last'.ret.empty = ft_last.ret.empty
          /\ ft_last'.ret.contents = ft_last.ret.contents]_vars

\* the parts that hold: the number agrees for every special, and emptiness,
\* skip and contents agree for the specials that are no presets
C35_StoredChannelsAgree ==
    [][ByNumberAfterByName =>
          /\ ft_last'.raised = None
          /\ ft_last'.ret.number = ft_last.ret.number
          /\ FtSlots[ft_last.ref].array \notin PresetArrays =>
                /\ ft_last'.ret.empty = ft_last.ret.empty
                /\ ft_last'.ret.skip = ft_last.ret.skip
                /\ ft_last'.ret.contents = ft_last.ret.contents]_vars

(***************************************************************************)
(* Claims on the frequency encoding                                        *)
(***************************************************************************)
\* radio_to_freq was applied to what freq_to_radio gave
Decoded == freq_last.op = "radio_to_freq"

\* C36: for every frequency inside the valid bands, in the clone-mode and in
\* the live-mode driver, freq_to_radio returns five bytes of which
\* radio_to_freq makes the frequency again.
C36_FrequencyRoundTrips ==
    /\ freq_last.op # "none" => freq_last.raised = None
    /\ Decoded => freq_last.back = freq_last.f

\* the part that holds: the round trip in the clone-mode driver, and in the
\* live-mode driver for the frequencies that are whole multiples of 10 kHz
\* plus less than 1 kHz
C36_CloneRoundTrips ==
    /\ freq_last.op # "none" => freq_last.raised = None
    /\ (Decoded /\ freq_last.driver = "clone") => freq_last.back = freq_last.f
    /\ (Decoded /\ freq_last.driver = "live" /\ freq_last.f % 10000 < 1000) =>
           freq_last.back = freq_last.f
\* what the live-mode driver loses: the kHz digit
C36_LiveLosesKilohertz ==
    (Decoded /\ freq_last.driver = "live") =>
        freq_last.back = freq_last.f - ((freq_last.f % 10000) \div 1000) * 1000

(***************************************************************************)
(* Claims on the release of the command lock                               *)
(***************************************************************************)
\* the thread is inside the with block of command()
InWith(t) == th[t].pc \in {"cmd_write", "cmd_read", "cmd_exit"}
\* the thread has written the frame of its command
Executes(t) == th[t].pc = "cmd_read"

\* the lock is held only by a thread inside the with block; it also holds
\* when a thread calls get_id
C37_HeldOnlyInside == \A t \in Threads : LOCK = t => InWith(t)

\* C37: a thread holds the lock only inside command(); when its command has
\* returned, timed out or raised the lock is free of it; and under fair
\* scheduling every thread that calls command() gets to write its command.
C37_LockAlwaysReleased ==
    /\ []C37_HeldOnlyInside
    /\ [][\A t \in Threads :
             (th[t].pc = "cmd_exit" /\ th'[t].pc = "cmd_done") => LOCK' = 0]_vars
    /\ \A t \in Threads : (th[t].pc = "cmd_lock") ~> Executes(t)

\* the first command of thread 2 holds the lock and has written its frame
\* after the command of thread 1 ended with UnicodeDecodeError
C37_Witness ==
    /\ th[1].pc = "idle" /\ th[1].outcome = "raised"
    /\ th[2].sent = 1 /\ Executes(2) /\ LOCK = 2
\* the same after a command of thread 1 whose wait ended at the deadline
C37_WitnessTimedOut ==
    /\ th[1].pc = "cmd_done" /\ ~th[1].raised /\ th[1].late
    /\ th[2].sent = 1 /\ Executes(2) /\ LOCK = 2

(***************************************************************************)
(* Claims on the rows of the bank editor                                   *)
(***************************************************************************)
\* the step is a row2mem for the row that mem2row gives for the memory
AskedRowOf(m) ==
    /\ row_last' # row_last
    /\ mem2row(m).raised = None
    /\ row_last'.row = mem2row(m).row

\* C38: for every memory m of the cache, ordinary or special, and for the
\* memory bounds counted from 0 or from 1, row2mem(mem2row(m)) returns m.
C38_RowRoundTrips ==
    [][\A key \in DOMAIN memory_cache :
          AskedRowOf(memory_cache[key]) =>
             (row_last'.raised = None /\ row_last'.ret = memory_cache[key])]_vars

\* the part that holds: the round trip of the ordinary memories, and of the
\* specials when the memory bounds start at 0
C38_RoundTripsFromZero ==
    [][\A key \in DOMAIN memory_cache :
          (AskedRowOf(memory_cache[key]) /\ (~key.str \/ memory_bounds[1] = 0)) =>
             (row_last'.raised = None /\ row_last'.ret = memory_cache[key])]_vars

(***************************************************************************)
(* Specifications                                                          *)
(***************************************************************************)
InitSlot ==
    /\ slot_ref \in SlotRefs
    /\ slot_res = Pending
    /\ slot_prev = Pending
    /\ FtIdle
    /\ CkIdle
    /\ BankIdle
    /\ LinkIdle
    /\ LiveIdle

SpecSlot == InitSlot /\ [][SlotNext]_vars

InitCk ==
    /\ ck_payload \in Payloads
    /\ ck_frame = <<>>
    /\ ck_rx = <<>>
    /\ ck_ok = "none"
    /\ SlotIdle
    /\ BankIdle
    /\ LinkIdle
    /\ LiveIdle

SpecCk == InitCk /\ [][CkNext]_vars

InitBank ==
    /\ \E img \in [Banks -> BankImages] :
          /\ bank_used = [b \in Banks |-> img[b].used]
          /\ bank_members = [b \in Banks |-> img[b].channel]
    /\ flag_nosubvfo = {}
    /\ vfo_info = [i \in 0..3 |-> VfoDisabled(0)]
    /\ bank_last = LastCall("none", 0, 0, "none")
    /\ SlotIdle
    /\ CkIdle
    /\ LinkIdle
    /\ LiveIdle

SpecBank == InitBank /\ [][BankNext]_vars

InitVfo ==
    /\ \E img \in [Banks -> VfoBankImages] :
          /\ bank_used = [b \in Banks |-> img[b].used]
          /\ bank_members = [b \in Banks |-> img[b].channel]
    /\ flag_nosubvfo \in SUBSET FlagPositions
    /\ \E a \in VfoPairs, b \in VfoPairs :
          vfo_info = [k \in 0..3 |-> IF k < 2 THEN a[k + 1] ELSE b[k - 1]]
    /\ bank_last = LastCall("none", 0, 0, "none")
    /\ SlotIdle
    /\ CkIdle
    /\ LinkIdle
    /\ LiveIdle

SpecVfo == InitVfo /\ [][VfoNext]_vars

\* the devices a port can be attached to: none, or one talking at one of
\* DeviceBauds: an Elecraft radio answering the identity command with a
\* model string or with a bare code, or another device; with or without
\* garbage received earlier
DeviceBauds == {0, 4800, 9600, FIRST_LAST_BAUD}
DeviceKinds == {"model", "code", "other"}
\* LAST_BAUD as the module sets it, or as an earlier get_id left it after a
\* radio answered at 9600
PriorBauds == {FIRST_LAST_BAUD, 9600}

InitLink ==
    /\ LOCK = 0
    /\ LAST_BAUD \in PriorBauds
    /\ port_baudrate = LAST_BAUD
    /\ port_rx = <<>>
    /\ dev_baud \in DeviceBauds
    /\ dev_kind \in DeviceKinds
    /\ dev_dirty \in BOOLEAN
    /\ dev_baud = 0 => dev_kind = "model" /\ ~dev_dirty
    /\ th = [t \in Threads |-> IF t \in IdThreads THEN ThreadIdle ELSE ThreadAbsent]
    /\ link_last = [thread |-> 0, kind |-> "none", during |-> {}, holder |-> 0]
    /\ SlotIdle
    /\ CkIdle
    /\ BankIdle
    /\ LiveIdle

\* one thread identifies the radio and sends commands
SpecLink == InitLink /\ [][LinkNext]_vars

InitThreads ==
    /\ LOCK = 0
    /\ LAST_BAUD \in PriorBauds
    /\ port_baudrate = LAST_BAUD
    /\ port_rx = <<>>
    /\ dev_baud \in DeviceBauds
    /\ dev_kind \in DeviceKinds
    /\ dev_dirty \in BOOLEAN
    /\ dev_baud = 0 => dev_kind = "model" /\ ~dev_dirty
    /\ th = [t \in Threads |-> ThreadIdle]
    /\ link_last = [thread |-> 0, kind |-> "none", during |-> {}, holder |-> 0]
    /\ SlotIdle
    /\ CkIdle
    /\ BankIdle
    /\ LiveIdle

\* the thread is scheduled as long as it has a step to take
SpecLinkFair == InitLink /\ [][LinkNext]_vars /\ WF_vars(LinkNext)

\* a second thread sends commands on the same port
SpecThreads == InitThreads /\ [][LinkNext]_vars

\* two threads call command(), each scheduled as long as it has a step to
\* take
SpecCommandFair ==
    InitThreads /\ [][CommandNext]_vars
       /\ \A t \in Threads : WF_vars(CommandStep(t))
\* bank images for set_memory: unused, and holding the first ordinary, the
\* first Skip and the first Home channel
MemBankImages ==
    { [used |-> UNUSED, channel |-> Image(<<>>)],
      [used |-> IN_USE,
       channel |-> Image(<<0, FtNumberOf("Skip901") - 1,
                           FtNumberOf("AM") - 1>>)] }
\* memory images: every slot in use, every slot unused, every slot invalid
\* and blank
MemImages ==
    { [k \in FtKeys |-> SlotImage(TRUE, TRUE, "", FALSE, "a")],
      [k \in FtKeys |-> SlotImage(FALSE, TRUE, "S", FALSE, "a")],
      [k \in FtKeys |-> SlotImage(TRUE, FALSE, "P", TRUE, "a")] }

InitMem ==
    /\ ft_mem \in MemImages
    /\ ft_last = FtNone
    /\ \E img \in [Banks -> MemBankImages] :
          /\ bank_used = [b \in Banks |-> img[b].used]
          /\ bank_members = [b \in Banks |-> img[b].channel]
    /\ flag_nosubvfo = {}
    /\ vfo_info = [i \in 0..3 |-> VfoDisabled(0)]
    /\ bank_last = LastCall("none", 0, 0, "none")
    /\ slot_ref = [memref |-> NumRef(1), extref |-> None]
    /\ slot_res = Pending
    /\ slot_prev = Pending
    /\ CkIdle
    /\ LinkIdle
    /\ LiveIdle

SpecMem == InitMem /\ [][MemNext]_vars

InitFreq ==
    /\ freq_last = FreqNone
    /\ memory_bounds = <<0, 0>>
    /\ memory_cache = <<>>
    /\ grid_rows = <<>>
    /\ row_last = RowNone
    /\ NOCACHE = FALSE
    /\ memcache = <<>>
    /\ live = LiveNone
    /\ SlotIdle
    /\ CkIdle
    /\ BankIdle
    /\ LinkIdle

SpecFreq == InitFreq /\ [][FreqNext]_vars

\* the editor after __init__: the grid is created, nothing is cached
InitEdit ==
    /\ memory_bounds \in EdBounds
    /\ memory_cache = <<>>
    /\ grid_rows = [row \in EdRows(memory_bounds) |->
                       [label |-> "", hidden |-> FALSE]]
    /\ row_last = RowNone
    /\ freq_last = FreqNone
    /\ NOCACHE = FALSE
    /\ memcache = <<>>
    /\ live = LiveNone
    /\ SlotIdle
    /\ CkIdle
    /\ BankIdle
    /\ LinkIdle

SpecEdit == InitEdit /\ [][EditNext]_vars

InitLive ==
    /\ NOCACHE \in BOOLEAN
    /\ memcache = <<>>
    /\ live = LiveNone
    /\ ConvIdle
    /\ SlotIdle
    /\ CkIdle
    /\ BankIdle
    /\ LinkIdle

SpecLive == InitLive /\ [][LiveNext]_vars

====
